---- MODULE Spec2Model ----
(***************************************************************************)
(* A model of the service layer of the django-rest meal planner:           *)
(* IngredientService, RecipeService and MealScheduleService over the       *)
(* four tables ingredients, recipes, recipe_ingredients, meal_schedules.   *)
(*                                                                         *)
(* Strings are sequences of one-character strings, so that strip() and     *)
(* upper() are computed and not assumed.  Python's None is NoneStr for a   *)
(* string argument and NoneId for an integer argument or a null foreign    *)
(* key.  Stock is counted in hundredths (DecimalField, decimal_places=2).  *)
(***************************************************************************)
EXTENDS Integers, Sequences, FiniteSets, TLC

VARIABLES
    ingredients,         \* table ingredients: id -> row
    recipes,             \* table recipes: id -> row
    recipe_ingredients,  \* table recipe_ingredients: id -> row
    meal_schedules,      \* table meal_schedules: id -> row
    next_id,             \* the AutoField sequence of each table
    response,            \* what the last service call answered
    requests             \* the requests in flight (concurrent specification)

vars == <<ingredients, recipes, recipe_ingredients, meal_schedules, next_id,
          response, requests>>

tables == <<ingredients, recipes, recipe_ingredients, meal_schedules>>

-----------------------------------------------------------------------------
(* Bounds of the model.                                                    *)

MaxIngredientId == 2
MaxRecipeId == 2
MaxLinkId == 2
MaxScheduleId == 3
MaxUnits == 3
MaxWorkers == 2

-----------------------------------------------------------------------------
(* Python values.                                                          *)

NoneStr == <<"None">>
NoneId == -1

Lowercase == <<"a","b","c","d","e","f","g","h","i","j","k","l","m",
               "n","o","p","q","r","s","t","u","v","w","x","y","z">>
Uppercase == <<"A","B","C","D","E","F","G","H","I","J","K","L","M",
               "N","O","P","Q","R","S","T","U","V","W","X","Y","Z">>
Whitespace == {" ", "\t", "\n", "\r", "\f"}

\* str.upper() on the letters
UpperTable ==
    [c \in {Lowercase[i] : i \in 1..Len(Lowercase)} |->
        Uppercase[CHOOSE i \in 1..Len(Lowercase) : Lowercase[i] = c]]

\* str.upper() on one character
UpperChar(c) == IF c \in DOMAIN UpperTable THEN UpperTable[c] ELSE c

\* str.upper()
Upper(s) == [i \in 1..Len(s) |-> UpperChar(s[i])]

\* str.lstrip()
RECURSIVE LStrip(_)
LStrip(s) ==
    IF s # <<>> /\ Head(s) \in Whitespace THEN LStrip(Tail(s)) ELSE s

\* str.rstrip()
RECURSIVE RStrip(_)
RStrip(s) ==
    IF s # <<>> /\ s[Len(s)] \in Whitespace
    THEN RStrip(SubSeq(s, 1, Len(s) - 1))
    ELSE s

\* str.strip()
Strip(s) == RStrip(LStrip(s))

\* `not s or s.strip() == ""`
IsBlank(s) == s = NoneStr \/ s = <<>> \/ Strip(s) = <<>>

MONDAY == <<"M","O","N","D","A","Y">>
TUESDAY == <<"T","U","E","S","D","A","Y">>
WEDNESDAY == <<"W","E","D","N","E","S","D","A","Y">>
THURSDAY == <<"T","H","U","R","S","D","A","Y">>
FRIDAY == <<"F","R","I","D","A","Y">>
SATURDAY == <<"S","A","T","U","R","D","A","Y">>
SUNDAY == <<"S","U","N","D","A","Y">>
BREAKFAST == <<"B","R","E","A","K","F","A","S","T">>
LUNCH == <<"L","U","N","C","H">>
DINNER == <<"D","I","N","N","E","R">>

valid_days == {MONDAY, TUESDAY, WEDNESDAY, THURSDAY, FRIDAY, SATURDAY, SUNDAY}
valid_types == {BREAKFAST, LUNCH, DINNER}

-----------------------------------------------------------------------------
(* The store.                                                              *)

\* f with key k removed
Without(f, k) == [x \in DOMAIN f \ {k} |-> f[x]]

\* f with row r under key k
With(f, k, r) == [x \in DOMAIN f \cup {k} |-> IF x = k THEN r ELSE f[x]]

Empty == [x \in {} |-> 0]

\* Model.objects.get(id=...) except DoesNotExist: return None
find_by_id(table, id) == IF id \in DOMAIN table THEN id ELSE NoneId

\* the rows of a slot
SlotRows(table, day, type) ==
    {i \in DOMAIN table : table[i].day_of_week = day /\ table[i].meal_type = type}

\* what a call answers: a return value, or the exception it raises
Returned(detail, value) == [raised |-> "", detail |-> detail, value |-> value]
Raised(exception, message) ==
    [raised |-> exception, detail |-> message, value |-> NoneId]

\* Python truthiness of an optional integer: `if recipe_id:`
Truthy(n) == n # NoneId /\ n # 0

Init ==
    /\ ingredients = Empty
    /\ recipes = Empty
    /\ recipe_ingredients = Empty
    /\ meal_schedules = Empty
    /\ next_id = [ingredients |-> 1, recipes |-> 1, recipe_ingredients |-> 1,
                  meal_schedules |-> 1]
    /\ response = [op |-> "", raised |-> "", detail |-> "", status |-> 0]
    /\ requests = Empty

-----------------------------------------------------------------------------
(* MealScheduleRepository.                                                 *)

\* find_by_day_and_type as it would be if it looked at the day only
find_by_day_only(day, meal_type) ==
    LET rows == {i \in DOMAIN meal_schedules :
                    meal_schedules[i].day_of_week = Upper(day)}
    IN
    IF rows = {} THEN Returned("None", NoneId)
    ELSE IF Cardinality(rows) = 1 THEN Returned("ok", CHOOSE i \in rows : TRUE)
    ELSE Raised("MultipleObjectsReturned", "get() returned more than one MealSchedule")

\* find_by_day_and_type as it would be with filter(...).first()
find_by_day_and_type_first(day, meal_type) ==
    LET rows == SlotRows(meal_schedules, Upper(day), Upper(meal_type)) IN
    IF rows = {} THEN Returned("None", NoneId)
    ELSE Returned("ok", CHOOSE i \in rows : \A j \in rows : i <= j)

\* MealSchedule.objects.get(day_of_week=day.upper(), meal_type=meal_type.upper()),
\* which answers the single row, None on DoesNotExist, and lets
\* MultipleObjectsReturned through
find_by_day_and_type(day, meal_type) ==
    LET rows == SlotRows(meal_schedules, Upper(day), Upper(meal_type)) IN
    IF rows = {} THEN Returned("None", NoneId)
    ELSE IF Cardinality(rows) = 1 THEN Returned("ok", CHOOSE i \in rows : TRUE)
    ELSE Raised("MultipleObjectsReturned", "get() returned more than one MealSchedule")

\* find_by_day_of_week as it would be without day.upper()
find_by_day_of_week_as_given(day) ==
    {i \in DOMAIN meal_schedules : meal_schedules[i].day_of_week = day}

\* MealSchedule.objects.filter(day_of_week=day.upper())
find_by_day_of_week(day) ==
    {i \in DOMAIN meal_schedules : meal_schedules[i].day_of_week = Upper(day)}

\* find_by_meal_type as it would be without meal_type.upper()
find_by_meal_type_as_given(meal_type) ==
    {i \in DOMAIN meal_schedules : meal_schedules[i].meal_type = meal_type}

\* MealSchedule.objects.filter(meal_type=meal_type.upper())
find_by_meal_type(meal_type) ==
    {i \in DOMAIN meal_schedules : meal_schedules[i].meal_type = Upper(meal_type)}

-----------------------------------------------------------------------------
(* MealScheduleService.                                                    *)

\* schedule_meal as it would be if the slot were checked before the recipe
schedule_meal_slot_first(meal_name, day_of_week, meal_type, recipe_id, notes) ==
    IF IsBlank(meal_name)
    THEN Raised("ValueError", "Meal name cannot be empty")
    ELSE IF Upper(day_of_week) \notin valid_days
    THEN Raised("ValueError", "Invalid day")
    ELSE IF Upper(meal_type) \notin valid_types
    THEN Raised("ValueError", "Invalid meal type")
    ELSE LET existing == find_by_day_and_type(day_of_week, meal_type) IN
         IF existing.raised # "" THEN existing
         ELSE IF existing.value # NoneId
         THEN Raised("ValueError", "A meal is already scheduled")
         ELSE IF Truthy(recipe_id) /\ find_by_id(recipes, recipe_id) = NoneId
         THEN Raised("ValueError", "Recipe not found")
         ELSE Returned("ok", [meal_name |-> Strip(meal_name),
                              day_of_week |-> Upper(day_of_week),
                              meal_type |-> Upper(meal_type),
                              recipe |-> IF Truthy(recipe_id) THEN recipe_id ELSE NoneId,
                              notes |-> notes])

schedule_meal(meal_name, day_of_week, meal_type, recipe_id, notes) ==
    IF IsBlank(meal_name)
    THEN Raised("ValueError", "Meal name cannot be empty")
    ELSE IF Upper(day_of_week) \notin valid_days
    THEN Raised("ValueError", "Invalid day")
    ELSE IF Upper(meal_type) \notin valid_types
    THEN Raised("ValueError", "Invalid meal type")
    ELSE IF Truthy(recipe_id) /\ find_by_id(recipes, recipe_id) = NoneId
    THEN Raised("ValueError", "Recipe not found")
    ELSE LET existing == find_by_day_and_type(day_of_week, meal_type) IN
         IF existing.raised # "" THEN existing
         ELSE IF existing.value # NoneId
         THEN Raised("ValueError", "A meal is already scheduled")
         ELSE Returned("ok", [meal_name |-> Strip(meal_name),
                              day_of_week |-> Upper(day_of_week),
                              meal_type |-> Upper(meal_type),
                              recipe |-> IF Truthy(recipe_id) THEN recipe_id ELSE NoneId,
                              notes |-> notes])

\* update_schedule as it would be without the validation of meal_type
update_schedule_type_unchecked(schedule_id, meal_name, day_of_week, meal_type, recipe_id, notes) ==
    IF find_by_id(meal_schedules, schedule_id) = NoneId
    THEN Returned("None", NoneId)
    ELSE IF meal_name # NoneStr /\ Strip(meal_name) = <<>>
    THEN Raised("ValueError", "Meal name cannot be empty")
    ELSE IF day_of_week # NoneStr /\ Upper(day_of_week) \notin valid_days
    THEN Raised("ValueError", "Invalid day")
    ELSE IF recipe_id # NoneId /\ find_by_id(recipes, recipe_id) = NoneId
    THEN Raised("ValueError", "Recipe not found")
    ELSE LET schedule == meal_schedules[schedule_id] IN
         Returned("ok",
            [meal_name |-> IF meal_name # NoneStr THEN Strip(meal_name)
                           ELSE schedule.meal_name,
             day_of_week |-> IF day_of_week # NoneStr THEN Upper(day_of_week)
                             ELSE schedule.day_of_week,
             meal_type |-> IF meal_type # NoneStr THEN Upper(meal_type)
                           ELSE schedule.meal_type,
             recipe |-> IF recipe_id # NoneId THEN recipe_id ELSE schedule.recipe,
             notes |-> IF notes # NoneStr THEN notes ELSE schedule.notes])

\* update_schedule as it would be with the slot check of schedule_meal
update_schedule_slot_checked(schedule_id, meal_name, day_of_week, meal_type, recipe_id, notes) ==
    IF find_by_id(meal_schedules, schedule_id) = NoneId
    THEN Returned("None", NoneId)
    ELSE IF meal_name # NoneStr /\ Strip(meal_name) = <<>>
    THEN Raised("ValueError", "Meal name cannot be empty")
    ELSE IF day_of_week # NoneStr /\ Upper(day_of_week) \notin valid_days
    THEN Raised("ValueError", "Invalid day")
    ELSE IF meal_type # NoneStr /\ Upper(meal_type) \notin valid_types
    THEN Raised("ValueError", "Invalid meal type")
    ELSE IF recipe_id # NoneId /\ find_by_id(recipes, recipe_id) = NoneId
    THEN Raised("ValueError", "Recipe not found")
    ELSE LET schedule == meal_schedules[schedule_id]
             day == IF day_of_week # NoneStr THEN Upper(day_of_week)
                    ELSE schedule.day_of_week
             type == IF meal_type # NoneStr THEN Upper(meal_type)
                     ELSE schedule.meal_type
         IN
         IF SlotRows(meal_schedules, day, type) \ {schedule_id} # {}
         THEN Raised("ValueError", "A meal is already scheduled")
         ELSE Returned("ok",
            [meal_name |-> IF meal_name # NoneStr THEN Strip(meal_name)
                           ELSE schedule.meal_name,
             day_of_week |-> day,
             meal_type |-> type,
             recipe |-> IF recipe_id # NoneId THEN recipe_id ELSE schedule.recipe,
             notes |-> IF notes # NoneStr THEN notes ELSE schedule.notes])

\* update_schedule as it would be if a recipe_id of None cleared the recipe
update_schedule_clearing(schedule_id, meal_name, day_of_week, meal_type, recipe_id, notes) ==
    IF find_by_id(meal_schedules, schedule_id) = NoneId
    THEN Returned("None", NoneId)
    ELSE IF meal_name # NoneStr /\ Strip(meal_name) = <<>>
    THEN Raised("ValueError", "Meal name cannot be empty")
    ELSE IF day_of_week # NoneStr /\ Upper(day_of_week) \notin valid_days
    THEN Raised("ValueError", "Invalid day")
    ELSE IF meal_type # NoneStr /\ Upper(meal_type) \notin valid_types
    THEN Raised("ValueError", "Invalid meal type")
    ELSE IF recipe_id # NoneId /\ find_by_id(recipes, recipe_id) = NoneId
    THEN Raised("ValueError", "Recipe not found")
    ELSE LET schedule == meal_schedules[schedule_id] IN
         Returned("ok",
            [meal_name |-> IF meal_name # NoneStr THEN Strip(meal_name)
                           ELSE schedule.meal_name,
             day_of_week |-> IF day_of_week # NoneStr THEN Upper(day_of_week)
                             ELSE schedule.day_of_week,
             meal_type |-> IF meal_type # NoneStr THEN Upper(meal_type)
                           ELSE schedule.meal_type,
             recipe |-> recipe_id,
             notes |-> IF notes # NoneStr THEN notes ELSE schedule.notes])

update_schedule(schedule_id, meal_name, day_of_week, meal_type, recipe_id, notes) ==
    IF find_by_id(meal_schedules, schedule_id) = NoneId
    THEN Returned("None", NoneId)
    ELSE IF meal_name # NoneStr /\ Strip(meal_name) = <<>>
    THEN Raised("ValueError", "Meal name cannot be empty")
    ELSE IF day_of_week # NoneStr /\ Upper(day_of_week) \notin valid_days
    THEN Raised("ValueError", "Invalid day")
    ELSE IF meal_type # NoneStr /\ Upper(meal_type) \notin valid_types
    THEN Raised("ValueError", "Invalid meal type")
    ELSE IF recipe_id # NoneId /\ find_by_id(recipes, recipe_id) = NoneId
    THEN Raised("ValueError", "Recipe not found")
    ELSE LET schedule == meal_schedules[schedule_id] IN
         Returned("ok",
            [meal_name |-> IF meal_name # NoneStr THEN Strip(meal_name)
                           ELSE schedule.meal_name,
             day_of_week |-> IF day_of_week # NoneStr THEN Upper(day_of_week)
                             ELSE schedule.day_of_week,
             meal_type |-> IF meal_type # NoneStr THEN Upper(meal_type)
                           ELSE schedule.meal_type,
             recipe |-> IF recipe_id # NoneId THEN recipe_id ELSE schedule.recipe,
             notes |-> IF notes # NoneStr THEN notes ELSE schedule.notes])

\* delete_by_id as it would be without `except MealSchedule.DoesNotExist`
delete_schedule_uncaught(schedule_id) ==
    IF schedule_id \in DOMAIN meal_schedules
    THEN Returned("True", schedule_id)
    ELSE Raised("DoesNotExist", "MealSchedule matching query does not exist")

\* MealScheduleRepository.delete_by_id
delete_schedule(schedule_id) ==
    IF schedule_id \in DOMAIN meal_schedules
    THEN Returned("True", schedule_id)
    ELSE Returned("False", NoneId)

\* get_schedules_by_day, as clear_day_schedule calls it
get_schedules_by_day(day) ==
    IF Upper(day) \notin valid_days
    THEN Raised("ValueError", "Invalid day")
    ELSE Returned("ok", find_by_day_of_week(day))

\* Meta.ordering = ['day_of_week', 'meal_type']: within a day the rows are
\* listed by meal_type, in the order of the strings
MealTypeOrder == <<BREAKFAST, DINNER, LUNCH>>

ListedBefore(a, b) ==
    \E j, k \in 1..Len(MealTypeOrder) :
        /\ MealTypeOrder[j] = meal_schedules[a].meal_type
        /\ MealTypeOrder[k] = meal_schedules[b].meal_type
        /\ j < k

\* the sets of rows that the loop of clear_day_schedule can have deleted
\* when one more delete_by_id is about to run: the rows of a proper prefix of
\* the list (rows of one meal_type are listed in an order the database picks)
DeletedSoFar(day) ==
    LET schedules == find_by_day_of_week(day) IN
    {done \in SUBSET schedules :
        /\ done # schedules
        /\ \A a \in done, b \in schedules \ done : ~ListedBefore(b, a)}

\* the table as it would be if the loop ran inside transaction.atomic()
meal_schedules_rolled_back(done) == meal_schedules

\* the table once delete_by_id has deleted the rows done; each delete is
\* committed on its own
meal_schedules_without(done) ==
    [i \in DOMAIN meal_schedules \ done |-> meal_schedules[i]]

get_schedules_by_meal_type(meal_type) ==
    IF Upper(meal_type) \notin valid_types
    THEN Raised("ValueError", "Invalid meal type")
    ELSE Returned("ok", find_by_meal_type(meal_type))

-----------------------------------------------------------------------------
(* Persistence: save() and delete() with the constraints the entities      *)
(* declare.                                                                *)

Ok(out) == out.raised = "" /\ out.detail = "ok"

\* MealSchedule.save() as it would be with
\* unique_together = ['day_of_week', 'meal_type']
meal_schedule_save_unique(id, row) ==
    IF SlotRows(meal_schedules, row.day_of_week, row.meal_type) \ {id} # {}
    THEN Raised("IntegrityError", "UNIQUE constraint failed")
    ELSE IF row.recipe # NoneId /\ row.recipe \notin DOMAIN recipes
    THEN Raised("IntegrityError", "FOREIGN KEY constraint failed")
    ELSE Returned("ok", With(meal_schedules, id, row))

\* MealSchedule.save(): Meta declares no unique_together (it is commented
\* out), so only the foreign key to recipes is enforced
meal_schedule_save(id, row) ==
    IF row.recipe # NoneId /\ row.recipe \notin DOMAIN recipes
    THEN Raised("IntegrityError", "FOREIGN KEY constraint failed")
    ELSE Returned("ok", With(meal_schedules, id, row))

\* MealSchedule.recipe as it would be with on_delete=models.CASCADE
recipe_set_null_cascading(recipe_id) ==
    [i \in {j \in DOMAIN meal_schedules : meal_schedules[j].recipe # recipe_id}
        |-> meal_schedules[i]]

\* MealSchedule.recipe: on_delete=models.SET_NULL
recipe_set_null(recipe_id) ==
    [i \in DOMAIN meal_schedules |->
        IF meal_schedules[i].recipe = recipe_id
        THEN [meal_schedules[i] EXCEPT !.recipe = NoneId]
        ELSE meal_schedules[i]]

\* RecipeIngredient.recipe as it would be with on_delete=models.DO_NOTHING
recipe_cascade_nothing(recipe_id) == recipe_ingredients

\* RecipeIngredient.recipe: on_delete=models.CASCADE
recipe_cascade(recipe_id) ==
    [i \in {j \in DOMAIN recipe_ingredients :
                recipe_ingredients[j].recipe # recipe_id}
        |-> recipe_ingredients[i]]

\* RecipeIngredient.ingredient as it would be with on_delete=models.DO_NOTHING
ingredient_cascade_nothing(ingredient_id) == recipe_ingredients

\* RecipeIngredient.ingredient: on_delete=models.CASCADE
ingredient_cascade(ingredient_id) ==
    [i \in {j \in DOMAIN recipe_ingredients :
                recipe_ingredients[j].ingredient # ingredient_id}
        |-> recipe_ingredients[i]]

\* RecipeIngredient.save() as it would be without unique_together
recipe_ingredient_save_not_unique(id, row) ==
    IF row.recipe \notin DOMAIN recipes \/ row.ingredient \notin DOMAIN ingredients
    THEN Raised("IntegrityError", "FOREIGN KEY constraint failed")
    ELSE Returned("ok", With(recipe_ingredients, id, row))

\* RecipeIngredient.save(): Meta.unique_together = ['recipe', 'ingredient'],
\* and both foreign keys are enforced
recipe_ingredient_save(id, row) ==
    IF \E i \in DOMAIN recipe_ingredients \ {id} :
          /\ recipe_ingredients[i].recipe = row.recipe
          /\ recipe_ingredients[i].ingredient = row.ingredient
    THEN Raised("IntegrityError", "UNIQUE constraint failed")
    ELSE IF row.recipe \notin DOMAIN recipes \/ row.ingredient \notin DOMAIN ingredients
    THEN Raised("IntegrityError", "FOREIGN KEY constraint failed")
    ELSE Returned("ok", With(recipe_ingredients, id, row))

\* Ingredient.save(): unit_type is a CharField without null=True
ingredient_save(id, row) ==
    IF row.unit_type = NoneStr
    THEN Raised("IntegrityError", "NOT NULL constraint failed")
    ELSE Returned("ok", With(ingredients, id, row))

\* the status the controllers answer with: each handler's try/except
HttpStatus(op, out) ==
    IF out.raised = "ValueError" THEN 400
    ELSE IF out.raised # "" THEN 500
    ELSE IF out.detail \in {"None", "False"} THEN 404
    ELSE IF op \in {"schedule_meal", "create_recipe", "create_ingredient",
                    "add_ingredient_to_recipe"} THEN 201
    ELSE 200

Answer(op, out) ==
    [op |-> op, raised |-> out.raised, detail |-> out.detail,
     status |-> HttpStatus(op, out)]

\* the answer of a read: the status and the body of the Response
AnswerBody(op, out) ==
    [op |-> op, raised |-> out.raised, detail |-> out.detail,
     status |-> HttpStatus(op, out), body |-> out.value]

-----------------------------------------------------------------------------
(* RecipeService.                                                          *)

\* create_recipe as it would be if the name were stored as given
create_recipe_untrimmed(meal_name, description, web_link) ==
    IF IsBlank(meal_name)
    THEN Raised("ValueError", "Meal name cannot be empty")
    ELSE Returned("ok", [meal_name |-> meal_name,
                         description |-> description,
                         web_link |-> web_link])

create_recipe(meal_name, description, web_link) ==
    IF IsBlank(meal_name)
    THEN Raised("ValueError", "Meal name cannot be empty")
    ELSE Returned("ok", [meal_name |-> Strip(meal_name),
                         description |-> description,
                         web_link |-> web_link])

update_recipe(recipe_id, meal_name, description, web_link) ==
    IF find_by_id(recipes, recipe_id) = NoneId
    THEN Returned("None", NoneId)
    ELSE IF meal_name # NoneStr /\ Strip(meal_name) = <<>>
    THEN Raised("ValueError", "Meal name cannot be empty")
    ELSE LET recipe == recipes[recipe_id] IN
         Returned("ok",
            [meal_name |-> IF meal_name # NoneStr THEN Strip(meal_name)
                           ELSE recipe.meal_name,
             description |-> IF description # NoneStr THEN description
                             ELSE recipe.description,
             web_link |-> IF web_link # NoneStr THEN web_link ELSE recipe.web_link])

\* RecipeRepository.delete_by_id
delete_recipe(recipe_id) ==
    IF recipe_id \in DOMAIN recipes
    THEN Returned("True", recipe_id)
    ELSE Returned("False", NoneId)

add_ingredient_to_recipe(recipe_id, ingredient_id, quantity) ==
    IF find_by_id(recipes, recipe_id) = NoneId
    THEN Raised("ValueError", "Recipe not found")
    ELSE IF find_by_id(ingredients, ingredient_id) = NoneId
    THEN Raised("ValueError", "Ingredient not found")
    ELSE IF IsBlank(quantity)
    THEN Raised("ValueError", "Quantity cannot be empty")
    ELSE Returned("ok", [recipe |-> recipe_id, ingredient |-> ingredient_id,
                         quantity |-> Strip(quantity)])

\* the elements of a set of ids as a list, in the order of the ids
RECURSIVE InIdOrder(_)
InIdOrder(ids) ==
    IF ids = {} THEN <<>>
    ELSE LET first == CHOOSE x \in ids : \A y \in ids : x <= y IN
         <<first>> \o InIdOrder(ids \ {first})

\* RecipeIngredient.objects.filter(recipe_id=recipe_id).select_related('ingredient')
find_by_recipe_id(recipe_id) ==
    InIdOrder({l \in DOMAIN recipe_ingredients :
                    recipe_ingredients[l].recipe = recipe_id})

\* get_recipe_with_ingredients_detail as it would be if the rows of every
\* recipe were listed
get_recipe_with_ingredients_detail_of_all(recipe_id) ==
    IF find_by_id(recipes, recipe_id) = NoneId
    THEN Returned("None", NoneId)
    ELSE LET recipe == recipes[recipe_id]
             rows == InIdOrder(DOMAIN recipe_ingredients)
         IN Returned("ok",
              [id |-> recipe_id,
               meal_name |-> recipe.meal_name,
               description |-> recipe.description,
               web_link |-> recipe.web_link,
               ingredients |->
                  [k \in 1..Len(rows) |->
                     LET ri == recipe_ingredients[rows[k]] IN
                     [ingredient_id |-> ri.ingredient,
                      ingredient_name |-> ingredients[ri.ingredient].name,
                      quantity |-> ri.quantity,
                      unit_type |-> ingredients[ri.ingredient].unit_type]]])

get_recipe_with_ingredients_detail(recipe_id) ==
    IF find_by_id(recipes, recipe_id) = NoneId
    THEN Returned("None", NoneId)
    ELSE LET recipe == recipes[recipe_id]
             rows == find_by_recipe_id(recipe_id)
         IN Returned("ok",
              [id |-> recipe_id,
               meal_name |-> recipe.meal_name,
               description |-> recipe.description,
               web_link |-> recipe.web_link,
               ingredients |->
                  [k \in 1..Len(rows) |->
                     LET ri == recipe_ingredients[rows[k]] IN
                     [ingredient_id |-> ri.ingredient,
                      ingredient_name |-> ingredients[ri.ingredient].name,
                      quantity |-> ri.quantity,
                      unit_type |-> ingredients[ri.ingredient].unit_type]]])

-----------------------------------------------------------------------------
(* IngredientService.  An optional number is <<>> for None and <<n>> for n. *)

\* create_ingredient as it would be if the name were stored as given
create_ingredient_untrimmed(name, units_available, unit_type) ==
    IF IsBlank(name)
    THEN Raised("ValueError", "Ingredient name cannot be empty")
    ELSE IF units_available < 0
    THEN Raised("ValueError", "Units available cannot be negative")
    ELSE Returned("ok", [name |-> name,
                         units_available |-> units_available,
                         unit_type |-> unit_type])

create_ingredient(name, units_available, unit_type) ==
    IF IsBlank(name)
    THEN Raised("ValueError", "Ingredient name cannot be empty")
    ELSE IF units_available < 0
    THEN Raised("ValueError", "Units available cannot be negative")
    ELSE Returned("ok", [name |-> Strip(name),
                         units_available |-> units_available,
                         unit_type |-> unit_type])

\* update_ingredient as it would be if a field that is not supplied were
\* reset to the default of its column
update_ingredient_overwriting(ingredient_id, name, units_available, unit_type) ==
    IF find_by_id(ingredients, ingredient_id) = NoneId
    THEN Returned("None", NoneId)
    ELSE IF name # NoneStr /\ Strip(name) = <<>>
    THEN Raised("ValueError", "Ingredient name cannot be empty")
    ELSE IF units_available # <<>> /\ units_available[1] < 0
    THEN Raised("ValueError", "Units available cannot be negative")
    ELSE LET ingredient == ingredients[ingredient_id] IN
         Returned("ok",
            [name |-> IF name # NoneStr THEN Strip(name) ELSE ingredient.name,
             units_available |-> IF units_available # <<>> THEN units_available[1]
                                 ELSE 0,
             unit_type |-> IF unit_type # NoneStr THEN unit_type
                           ELSE <<"p","i","e","c","e","s">>])

\* update_ingredient as it would be without the check of the new units
update_ingredient_units_unchecked(ingredient_id, name, units_available, unit_type) ==
    IF find_by_id(ingredients, ingredient_id) = NoneId
    THEN Returned("None", NoneId)
    ELSE IF name # NoneStr /\ Strip(name) = <<>>
    THEN Raised("ValueError", "Ingredient name cannot be empty")
    ELSE LET ingredient == ingredients[ingredient_id] IN
         Returned("ok",
            [name |-> IF name # NoneStr THEN Strip(name) ELSE ingredient.name,
             units_available |-> IF units_available # <<>> THEN units_available[1]
                                 ELSE ingredient.units_available,
             unit_type |-> IF unit_type # NoneStr THEN unit_type
                           ELSE ingredient.unit_type])

update_ingredient(ingredient_id, name, units_available, unit_type) ==
    IF find_by_id(ingredients, ingredient_id) = NoneId
    THEN Returned("None", NoneId)
    ELSE IF name # NoneStr /\ Strip(name) = <<>>
    THEN Raised("ValueError", "Ingredient name cannot be empty")
    ELSE IF units_available # <<>> /\ units_available[1] < 0
    THEN Raised("ValueError", "Units available cannot be negative")
    ELSE LET ingredient == ingredients[ingredient_id] IN
         Returned("ok",
            [name |-> IF name # NoneStr THEN Strip(name) ELSE ingredient.name,
             units_available |-> IF units_available # <<>> THEN units_available[1]
                                 ELSE ingredient.units_available,
             unit_type |-> IF unit_type # NoneStr THEN unit_type
                           ELSE ingredient.unit_type])

\* IngredientRepository.delete_by_id
delete_ingredient(ingredient_id) ==
    IF ingredient_id \in DOMAIN ingredients
    THEN Returned("True", ingredient_id)
    ELSE Returned("False", NoneId)

\* update_stock as it would be if the change were taken as the new stock
update_stock_replacing(ingredient_id, quantity_change) ==
    IF find_by_id(ingredients, ingredient_id) = NoneId
    THEN Returned("None", NoneId)
    ELSE LET ingredient == ingredients[ingredient_id]
             new_quantity == quantity_change
         IN
         IF new_quantity < 0
         THEN Raised("ValueError", "Insufficient stock")
         ELSE Returned("ok", [ingredient EXCEPT !.units_available = new_quantity])

\* update_stock without the guard against negative stock
update_stock_unguarded(ingredient_id, quantity_change) ==
    IF find_by_id(ingredients, ingredient_id) = NoneId
    THEN Returned("None", NoneId)
    ELSE LET ingredient == ingredients[ingredient_id]
             new_quantity == ingredient.units_available + quantity_change
         IN Returned("ok", [ingredient EXCEPT !.units_available = new_quantity])

update_stock(ingredient_id, quantity_change) ==
    IF find_by_id(ingredients, ingredient_id) = NoneId
    THEN Returned("None", NoneId)
    ELSE LET ingredient == ingredients[ingredient_id]
             new_quantity == ingredient.units_available + quantity_change
         IN
         IF new_quantity < 0
         THEN Raised("ValueError", "Insufficient stock")
         ELSE Returned("ok", [ingredient EXCEPT !.units_available = new_quantity])

-----------------------------------------------------------------------------
(* The service calls, one at a time.                                       *)

CreateRecipe(meal_name, description, web_link) ==
    LET out == create_recipe(meal_name, description, web_link) IN
    /\ Ok(out) => next_id.recipes <= MaxRecipeId
    /\ recipes' = IF Ok(out) THEN With(recipes, next_id.recipes, out.value)
                  ELSE recipes
    /\ next_id' = IF Ok(out) THEN [next_id EXCEPT !.recipes = @ + 1] ELSE next_id
    /\ response' = Answer("create_recipe", out)
    /\ UNCHANGED <<ingredients, recipe_ingredients, meal_schedules, requests>>

UpdateRecipe(recipe_id, meal_name, description, web_link) ==
    LET out == update_recipe(recipe_id, meal_name, description, web_link) IN
    /\ recipes' = IF Ok(out) THEN With(recipes, recipe_id, out.value) ELSE recipes
    /\ response' = Answer("update_recipe", out)
    /\ UNCHANGED <<ingredients, recipe_ingredients, meal_schedules, next_id, requests>>

DeleteRecipe(recipe_id) ==
    LET out == delete_recipe(recipe_id) IN
    /\ recipes' = IF out.detail = "True" THEN Without(recipes, recipe_id) ELSE recipes
    /\ recipe_ingredients' = IF out.detail = "True" THEN recipe_cascade(recipe_id)
                             ELSE recipe_ingredients
    /\ meal_schedules' = IF out.detail = "True" THEN recipe_set_null(recipe_id)
                         ELSE meal_schedules
    /\ response' = Answer("delete_recipe", out)
    /\ UNCHANGED <<ingredients, next_id, requests>>

ScheduleMeal(meal_name, day_of_week, meal_type, recipe_id, notes) ==
    LET checked == schedule_meal(meal_name, day_of_week, meal_type, recipe_id, notes)
        out == IF Ok(checked)
               THEN meal_schedule_save(next_id.meal_schedules, checked.value)
               ELSE checked
    IN
    /\ Ok(out) => next_id.meal_schedules <= MaxScheduleId
    /\ meal_schedules' = IF Ok(out) THEN out.value ELSE meal_schedules
    /\ next_id' = IF Ok(out) THEN [next_id EXCEPT !.meal_schedules = @ + 1]
                  ELSE next_id
    /\ response' = Answer("schedule_meal", out)
    /\ UNCHANGED <<ingredients, recipes, recipe_ingredients, requests>>

UpdateSchedule(schedule_id, meal_name, day_of_week, meal_type, recipe_id, notes) ==
    LET checked == update_schedule(schedule_id, meal_name, day_of_week, meal_type,
                                   recipe_id, notes)
        out == IF Ok(checked) THEN meal_schedule_save(schedule_id, checked.value)
               ELSE checked
    IN
    /\ meal_schedules' = IF Ok(out) THEN out.value ELSE meal_schedules
    /\ response' = Answer("update_schedule", out)
    /\ UNCHANGED <<ingredients, recipes, recipe_ingredients, next_id, requests>>

DeleteSchedule(schedule_id) ==
    LET out == delete_schedule(schedule_id) IN
    /\ meal_schedules' = IF out.detail = "True"
                         THEN Without(meal_schedules, schedule_id)
                         ELSE meal_schedules
    /\ response' = Answer("delete_schedule", out)
    /\ UNCHANGED <<ingredients, recipes, recipe_ingredients, next_id, requests>>

\* every delete_by_id of the loop succeeds
ClearDaySchedule(day) ==
    LET out == get_schedules_by_day(day) IN
    /\ meal_schedules' =
          IF Ok(out)
          THEN [i \in DOMAIN meal_schedules \ out.value |-> meal_schedules[i]]
          ELSE meal_schedules
    /\ response' = Answer("clear_day_schedule", out)
    /\ UNCHANGED <<ingredients, recipes, recipe_ingredients, next_id, requests>>

\* clear_day_schedule when the database fails a delete_by_id of the loop,
\* the rows done having been deleted: the exception leaves the loop and
\* the call.  The answer records the day and the rows that were deleted.
ClearDayScheduleFailing(day, done) ==
    /\ Ok(get_schedules_by_day(day))
    /\ done \in DeletedSoFar(day)
    /\ meal_schedules' = meal_schedules_without(done)
    /\ response' = [op |-> "clear_day_schedule", raised |-> "DatabaseError",
                    detail |-> "delete failed", status |-> 500,
                    day |-> Upper(day), deleted |-> done]
    /\ UNCHANGED <<ingredients, recipes, recipe_ingredients, next_id, requests>>

AddIngredientToRecipe(recipe_id, ingredient_id, quantity) ==
    LET checked == add_ingredient_to_recipe(recipe_id, ingredient_id, quantity)
        out == IF Ok(checked)
               THEN recipe_ingredient_save(next_id.recipe_ingredients, checked.value)
               ELSE checked
    IN
    /\ Ok(out) => next_id.recipe_ingredients <= MaxLinkId
    /\ recipe_ingredients' = IF Ok(out) THEN out.value ELSE recipe_ingredients
    /\ next_id' = IF Ok(out) THEN [next_id EXCEPT !.recipe_ingredients = @ + 1]
                  ELSE next_id
    /\ response' = Answer("add_ingredient_to_recipe", out)
    /\ UNCHANGED <<ingredients, recipes, meal_schedules, requests>>

CreateIngredient(name, units_available, unit_type) ==
    LET checked == create_ingredient(name, units_available, unit_type)
        out == IF Ok(checked) THEN ingredient_save(next_id.ingredients, checked.value)
               ELSE checked
    IN
    /\ Ok(out) => next_id.ingredients <= MaxIngredientId
    /\ ingredients' = IF Ok(out) THEN out.value ELSE ingredients
    /\ next_id' = IF Ok(out) THEN [next_id EXCEPT !.ingredients = @ + 1] ELSE next_id
    /\ response' = Answer("create_ingredient", out)
    /\ UNCHANGED <<recipes, recipe_ingredients, meal_schedules, requests>>

UpdateIngredient(ingredient_id, name, units_available, unit_type) ==
    LET checked == update_ingredient(ingredient_id, name, units_available, unit_type)
        out == IF Ok(checked) THEN ingredient_save(ingredient_id, checked.value)
               ELSE checked
    IN
    /\ ingredients' = IF Ok(out) THEN out.value ELSE ingredients
    /\ response' = Answer("update_ingredient", out)
    /\ UNCHANGED <<recipes, recipe_ingredients, meal_schedules, next_id, requests>>

UpdateStock(ingredient_id, quantity_change) ==
    LET checked == update_stock(ingredient_id, quantity_change)
        out == IF Ok(checked) THEN ingredient_save(ingredient_id, checked.value)
               ELSE checked
    IN
    /\ Ok(checked) => checked.value.units_available <= MaxUnits
    /\ ingredients' = IF Ok(out) THEN out.value ELSE ingredients
    /\ response' = Answer("update_stock", out)
    /\ UNCHANGED <<recipes, recipe_ingredients, meal_schedules, next_id, requests>>

DeleteIngredient(ingredient_id) ==
    LET out == delete_ingredient(ingredient_id) IN
    /\ ingredients' = IF out.detail = "True" THEN Without(ingredients, ingredient_id)
                      ELSE ingredients
    /\ recipe_ingredients' = IF out.detail = "True" THEN ingredient_cascade(ingredient_id)
                             ELSE recipe_ingredients
    /\ response' = Answer("delete_ingredient", out)
    /\ UNCHANGED <<recipes, meal_schedules, next_id, requests>>

\* a read: the body is the set of the rows that are listed
GetSchedulesByDay(day) ==
    /\ response' = AnswerBody("get_schedules_by_day", get_schedules_by_day(day))
    /\ UNCHANGED <<tables, next_id, requests>>

\* a read: the body is the set of the rows that are listed
GetSchedulesByMealType(meal_type) ==
    /\ response' = AnswerBody("get_schedules_by_meal_type",
                              get_schedules_by_meal_type(meal_type))
    /\ UNCHANGED <<tables, next_id, requests>>

\* a read: no table changes
GetRecipeWithIngredientsDetail(recipe_id) ==
    /\ response' = AnswerBody("get_recipe_with_ingredients_detail",
                              get_recipe_with_ingredients_detail(recipe_id))
    /\ UNCHANGED <<tables, next_id, requests>>

-----------------------------------------------------------------------------
(* Concurrent requests.  Each worker serves one request at a time and runs *)
(* its service call one database statement per step; nothing is locked     *)
(* between the statements.                                                 *)

Workers == 1..MaxWorkers

NoAnswer == [op |-> "", raised |-> "", detail |-> "", status |-> 0]

Saving(op) == {p \in DOMAIN requests : requests[p].op = op /\ requests[p].pc = "save"}

\* schedule_meal without a recipe, up to and including find_by_day_and_type
BeginScheduleMeal(p, meal_name, day_of_week, meal_type) ==
    LET checked == schedule_meal(meal_name, day_of_week, meal_type, NoneId, NoneStr) IN
    /\ p \notin DOMAIN requests
    /\ next_id.meal_schedules + Cardinality(Saving("schedule_meal")) <= MaxScheduleId
    /\ requests' = With(requests, p,
          [op |-> "schedule_meal",
           pc |-> IF Ok(checked) THEN "save" ELSE "done",
           args |-> <<Upper(day_of_week), Upper(meal_type)>>,
           row |-> IF Ok(checked) THEN checked.value ELSE <<>>,
           answer |-> IF Ok(checked) THEN NoAnswer
                      ELSE Answer("schedule_meal", checked)])
    /\ UNCHANGED <<tables, next_id, response>>

\* schedule_meal: self.meal_schedule_repository.save(meal_schedule)
SaveScheduleMeal(p) ==
    /\ p \in Saving("schedule_meal")
    /\ LET out == meal_schedule_save(next_id.meal_schedules, requests[p].row) IN
       /\ meal_schedules' = IF Ok(out) THEN out.value ELSE meal_schedules
       /\ next_id' = IF Ok(out) THEN [next_id EXCEPT !.meal_schedules = @ + 1]
                     ELSE next_id
       /\ requests' = [requests EXCEPT ![p].pc = "done",
                                       ![p].answer = Answer("schedule_meal", out)]
    /\ UNCHANGED <<ingredients, recipes, recipe_ingredients, response>>

\* add_ingredient_to_recipe: self.recipe_repository.find_by_id(recipe_id)
BeginAddIngredient(p, recipe_id, ingredient_id, quantity) ==
    LET found == find_by_id(recipes, recipe_id) # NoneId IN
    /\ p \notin DOMAIN requests
    /\ next_id.recipe_ingredients + Cardinality(Saving("add_ingredient_to_recipe"))
          + Cardinality({q \in DOMAIN requests : requests[q].pc = "find_ingredient"})
          <= MaxLinkId
    /\ requests' = With(requests, p,
          [op |-> "add_ingredient_to_recipe",
           pc |-> IF found THEN "find_ingredient" ELSE "done",
           args |-> <<recipe_id, ingredient_id>>,
           row |-> [recipe |-> recipe_id, ingredient |-> ingredient_id,
                    quantity |-> quantity],
           answer |-> IF found THEN NoAnswer
                      ELSE Answer("add_ingredient_to_recipe",
                                  Raised("ValueError", "Recipe not found"))])
    /\ UNCHANGED <<tables, next_id, response>>

\* add_ingredient_to_recipe: self.ingredient_repository.find_by_id(ingredient_id),
\* then the check of the quantity
FindIngredient(p) ==
    /\ p \in DOMAIN requests
    /\ requests[p].pc = "find_ingredient"
    /\ LET row == requests[p].row
           out == IF find_by_id(ingredients, row.ingredient) = NoneId
                  THEN Raised("ValueError", "Ingredient not found")
                  ELSE IF IsBlank(row.quantity)
                  THEN Raised("ValueError", "Quantity cannot be empty")
                  ELSE Returned("ok", [row EXCEPT !.quantity = Strip(row.quantity)])
       IN requests' =
            IF Ok(out)
            THEN [requests EXCEPT ![p].pc = "save", ![p].row = out.value]
            ELSE [requests EXCEPT ![p].pc = "done",
                                  ![p].answer = Answer("add_ingredient_to_recipe", out)]
    /\ UNCHANGED <<tables, next_id, response>>

\* add_ingredient_to_recipe: self.recipe_ingredient_repository.save(recipe_ingredient)
SaveRecipeIngredient(p) ==
    /\ p \in Saving("add_ingredient_to_recipe")
    /\ LET out == recipe_ingredient_save(next_id.recipe_ingredients, requests[p].row) IN
       /\ recipe_ingredients' = IF Ok(out) THEN out.value ELSE recipe_ingredients
       /\ next_id' = IF Ok(out) THEN [next_id EXCEPT !.recipe_ingredients = @ + 1]
                     ELSE next_id
       /\ requests' = [requests EXCEPT ![p].pc = "done",
                          ![p].answer = Answer("add_ingredient_to_recipe", out)]
    /\ UNCHANGED <<ingredients, recipes, meal_schedules, response>>

\* update_stock up to the check of the new quantity: the row is read, and the
\* new quantity is set on the object in memory
BeginUpdateStock(p, ingredient_id, quantity_change) ==
    LET checked == update_stock(ingredient_id, quantity_change) IN
    /\ p \notin DOMAIN requests
    /\ Ok(checked) => checked.value.units_available <= MaxUnits
    /\ requests' = With(requests, p,
          [op |-> "update_stock",
           pc |-> IF Ok(checked) THEN "save" ELSE "done",
           args |-> <<ingredient_id, quantity_change>>,
           row |-> IF Ok(checked) THEN checked.value ELSE <<>>,
           answer |-> IF Ok(checked) THEN NoAnswer
                      ELSE Answer("update_stock", checked)])
    /\ UNCHANGED <<tables, next_id, response>>

\* update_ingredient up to the last check: the row is read, and the supplied
\* fields are set on the object in memory
BeginUpdateIngredient(p, ingredient_id, name, units_available, unit_type) ==
    LET checked == update_ingredient(ingredient_id, name, units_available, unit_type) IN
    /\ p \notin DOMAIN requests
    /\ requests' = With(requests, p,
          [op |-> "update_ingredient",
           pc |-> IF Ok(checked) THEN "save" ELSE "done",
           args |-> <<ingredient_id, units_available>>,
           row |-> IF Ok(checked) THEN checked.value ELSE <<>>,
           answer |-> IF Ok(checked) THEN NoAnswer
                      ELSE Answer("update_ingredient", checked)])
    /\ UNCHANGED <<tables, next_id, response>>

\* the row a save would write if the stock were changed in the database
\* (units_available = F('units_available') + quantity_change)
saved_ingredient_incremented(p) ==
    IF requests[p].op = "update_stock"
    THEN [ingredients[requests[p].args[1]] EXCEPT
              !.units_available = @ + requests[p].args[2]]
    ELSE requests[p].row

\* ingredient.save() writes every field of the object that was read
saved_ingredient(p) == requests[p].row

\* update_stock and update_ingredient: self.repository.save(ingredient)
SaveIngredient(p) ==
    /\ p \in Saving("update_stock") \cup Saving("update_ingredient")
    /\ LET out == ingredient_save(requests[p].args[1], saved_ingredient(p)) IN
       /\ ingredients' = IF Ok(out) THEN out.value ELSE ingredients
       /\ requests' = [requests EXCEPT ![p].pc = "done",
                                       ![p].answer = Answer(requests[p].op, out)]
    /\ UNCHANGED <<recipes, recipe_ingredients, meal_schedules, next_id, response>>

\* the controller returns the Response
Respond(p) ==
    /\ p \in DOMAIN requests
    /\ requests[p].pc = "done"
    /\ requests' = Without(requests, p)
    /\ UNCHANGED <<tables, next_id, response>>

-----------------------------------------------------------------------------
(* The inputs the calls are tried with.                                    *)

Curry == <<"C","u","r","r","y">>
Spicy == <<"h","o","t">>
monday == <<"m","o","n","d","a","y">>
Funday == <<"F","U","N","D","A","Y">>
lunch == <<"l","u","n","c","h">>
Brunch == <<"B","R","U","N","C","H">>

Days == {MONDAY, monday, TUESDAY, Funday}
MealTypes == {LUNCH, lunch, DINNER, Brunch}
Notes == {NoneStr, Spicy}
RecipeIds == 0..MaxRecipeId
DayUpdates == {NoneStr, TUESDAY, monday, Funday}
TypeUpdates == {NoneStr, DINNER, lunch, Brunch}
NameInputs == {Curry, <<" ">>}
ScheduleIds == 1..MaxScheduleId

\* the slots of the meal schedule
NextSchedule ==
    \/ \E n \in NameInputs, d \in Days, t \in MealTypes :
            ScheduleMeal(n, d, t, NoneId, NoneStr)
    \/ \E i \in ScheduleIds, d \in DayUpdates, t \in TypeUpdates :
            UpdateSchedule(i, NoneStr, d, t, NoneId, NoneStr)
    \/ \E i \in ScheduleIds : DeleteSchedule(i)
    \/ \E d \in Days : ClearDaySchedule(d)

Spec == Init /\ [][NextSchedule]_vars

Tomato == <<"T","o","m","a","t","o">>
Basil == <<"B","a","s","i","l">>
pieces == <<"p","i","e","c","e","s">>
kg == <<"k","g">>
Grams == <<"5","0","0","g">>
Cups == <<" ","2"," ">>

IngredientIds == 0..MaxIngredientId
Quantities == {Grams, Cups, <<" ">>}
IngredientNames == {Tomato, <<" ">> \o Basil}
NewIngredientNames == {Tomato, <<" ">> \o Basil \o <<"\t">>, <<" ">>, <<>>}
UnitTypes == {kg, pieces}
UnitsInputs == -1..MaxUnits

\* the stock of the ingredients
NextInventory ==
    \/ \E n \in NewIngredientNames, u \in UnitsInputs : CreateIngredient(n, u, kg)
    \/ \E i \in IngredientIds, u \in {<<>>} \cup {<<v>> : v \in -1..MaxUnits} :
            UpdateIngredient(i, NoneStr, u, NoneStr)
    \/ \E i \in IngredientIds, q \in -(MaxUnits + 1)..MaxUnits : UpdateStock(i, q)
    \/ \E i \in IngredientIds : DeleteIngredient(i)

SpecInventory == Init /\ [][NextInventory]_vars

\* update_stock with no change of the stock
NextStockIdentity ==
    \/ \E n \in IngredientNames, u \in 0..MaxUnits, t \in UnitTypes :
            CreateIngredient(n, u, t)
    \/ \E i \in IngredientIds, u \in {<<>>} \cup {<<v>> : v \in 0..MaxUnits} :
            UpdateIngredient(i, NoneStr, u, NoneStr)
    \/ \E i \in IngredientIds : UpdateStock(i, 0)
    \/ \E i \in IngredientIds : DeleteIngredient(i)

SpecStockIdentity == Init /\ [][NextStockIdentity]_vars

\* calls addressed to ids that may or may not be in the store
NextAbsent ==
    \/ CreateIngredient(Tomato, 1, kg)
    \/ CreateRecipe(Curry, NoneStr, NoneStr)
    \/ \E d \in {MONDAY, TUESDAY} : ScheduleMeal(Curry, d, LUNCH, NoneId, NoneStr)
    \/ \E i \in IngredientIds : DeleteIngredient(i)
    \/ \E r \in RecipeIds : DeleteRecipe(r)
    \/ \E i \in 0..MaxScheduleId : DeleteSchedule(i)
    \/ \E i \in IngredientIds, n \in {NoneStr, <<" ">>} :
            UpdateIngredient(i, n, <<>>, NoneStr)
    \/ \E r \in RecipeIds, n \in {NoneStr, <<" ">>} :
            UpdateRecipe(r, n, NoneStr, NoneStr)
    \/ \E i \in 0..MaxScheduleId, d \in {NoneStr, Funday} :
            UpdateSchedule(i, NoneStr, d, NoneStr, NoneId, NoneStr)
    \/ \E i \in IngredientIds, q \in {-2, 0} : UpdateStock(i, q)

SpecAbsent == Init /\ [][NextAbsent]_vars

Soup == <<"S","o","u","p">>
Link == <<"h","t","t","p",":","/","/","x",".","y">>
tuesday == <<"t","u","e","s","d","a","y">>
dinner == <<"D","i","n","n","e","r">>

\* the fields an update supplies: none, some, all
IngredientUpdates ==
    {<<NoneStr, <<>>, NoneStr>>,
     <<<<" ">> \o Basil, <<>>, NoneStr>>,
     <<NoneStr, <<2>>, pieces>>,
     <<<<" ">> \o Basil, <<2>>, pieces>>}
RecipeUpdates ==
    {<<NoneStr, NoneStr, NoneStr>>,
     <<<<" ">> \o Soup \o <<" ">>, NoneStr, NoneStr>>,
     <<NoneStr, Spicy, Link>>,
     <<<<" ">> \o Soup \o <<" ">>, Spicy, Link>>}
ScheduleUpdates ==
    {<<NoneStr, NoneStr, NoneStr, NoneId, NoneStr>>,
     <<<<" ">> \o Soup \o <<" ">>, NoneStr, NoneStr, NoneId, NoneStr>>,
     <<NoneStr, tuesday, dinner, NoneId, NoneStr>>,
     <<NoneStr, NoneStr, NoneStr, 1, Spicy>>,
     <<<<" ">> \o Soup \o <<" ">>, tuesday, dinner, 1, Spicy>>}

\* partial updates of the first row of each table
NextUpdate ==
    \/ CreateIngredient(Tomato, 1, kg)
    \/ CreateRecipe(Curry, NoneStr, NoneStr)
    \/ ScheduleMeal(Curry, MONDAY, LUNCH, NoneId, NoneStr)
    \/ \E u \in IngredientUpdates : UpdateIngredient(1, u[1], u[2], u[3])
    \/ \E u \in RecipeUpdates : UpdateRecipe(1, u[1], u[2], u[3])
    \/ \E u \in ScheduleUpdates : UpdateSchedule(1, u[1], u[2], u[3], u[4], u[5])

SpecUpdate == Init /\ [][NextUpdate]_vars

\* updates with a field that is not valid, after fields that are
RejectedIngredientUpdates ==
    {<<Basil, <<0 - 1>>, pieces>>,
     <<<<" ">>, <<2>>, pieces>>}
RejectedRecipeUpdates ==
    {<<<<"\t">>, Spicy, Link>>,
     <<<<>>, NoneStr, NoneStr>>}
RejectedScheduleUpdates ==
    {<<<<" ">>, tuesday, dinner, NoneId, Spicy>>,
     <<Soup, Funday, dinner, NoneId, Spicy>>,
     <<Soup, tuesday, Brunch, NoneId, Spicy>>,
     <<Soup, tuesday, dinner, 0, Spicy>>}

\* updates that fail, among updates that do not
NextRejectedUpdate ==
    \/ CreateIngredient(Tomato, 1, kg)
    \/ CreateRecipe(Curry, NoneStr, NoneStr)
    \/ \E d \in {MONDAY, TUESDAY} : ScheduleMeal(Curry, d, LUNCH, NoneId, NoneStr)
    \/ \E u \in IngredientUpdates \cup RejectedIngredientUpdates :
            UpdateIngredient(1, u[1], u[2], u[3])
    \/ \E u \in RecipeUpdates \cup RejectedRecipeUpdates :
            UpdateRecipe(1, u[1], u[2], u[3])
    \/ \E u \in ScheduleUpdates \cup RejectedScheduleUpdates :
            UpdateSchedule(1, u[1], u[2], u[3], u[4], u[5])

SpecRejectedUpdate == Init /\ [][NextRejectedUpdate]_vars

\* clearing the days of the meal schedule
NextClearDay ==
    \/ \E d \in {MONDAY, TUESDAY}, t \in {LUNCH, DINNER} :
            ScheduleMeal(Curry, d, t, NoneId, NoneStr)
    \/ \E d \in Days : ClearDaySchedule(d)

SpecClearDay == Init /\ [][NextClearDay]_vars

\* clearing the days of the meal schedule when deletes can fail
NextClearDayFailure ==
    \/ \E d \in {MONDAY, TUESDAY}, t \in {LUNCH, DINNER} :
            ScheduleMeal(Curry, d, t, NoneId, NoneStr)
    \/ \E d \in Days : ClearDaySchedule(d)
    \/ \E d \in Days, done \in SUBSET ScheduleIds : ClearDayScheduleFailing(d, done)

SpecClearDayFailure == Init /\ [][NextClearDayFailure]_vars

\* one slot that is taken, freed and taken again
NextFreeSlot ==
    \/ \E d \in {MONDAY, monday} : ScheduleMeal(Curry, d, LUNCH, NoneId, NoneStr)
    \/ \E i \in ScheduleIds, d \in {NoneStr, tuesday}, t \in {NoneStr, dinner} :
            UpdateSchedule(i, NoneStr, d, t, NoneId, NoneStr)
    \/ \E i \in ScheduleIds : DeleteSchedule(i)

SpecFreeSlot == Init /\ [][NextFreeSlot]_vars

DayQueries == {MONDAY, monday, tuesday, SUNDAY, Funday, <<>>}
TypeQueries == {LUNCH, lunch, dinner, BREAKFAST, Brunch, <<>>}

\* the lists of the meal schedule by day and by meal type
NextQuery ==
    \/ \E d \in {MONDAY, tuesday}, t \in {LUNCH, dinner} :
            ScheduleMeal(Curry, d, t, NoneId, NoneStr)
    \/ \E i \in ScheduleIds : DeleteSchedule(i)
    \/ \E d \in DayQueries : GetSchedulesByDay(d)
    \/ \E t \in TypeQueries : GetSchedulesByMealType(t)

SpecQuery == Init /\ [][NextQuery]_vars

\* whether the pattern occurs in the value as a run of characters
Contains(value, pattern) ==
    \E k \in 0..(Len(value) - Len(pattern)) :
        SubSeq(value, k + 1, k + Len(pattern)) = pattern

\* the lookup __icontains: the letters are compared without their case
icontains(value, pattern) == Contains(Upper(value), Upper(pattern))

\* find_by_name_containing as it would be with the lookup __contains
find_by_name_containing_case_sensitive(name) ==
    {i \in DOMAIN ingredients : Contains(ingredients[i].name, name)}

\* IngredientRepository.find_by_name_containing
find_by_name_containing(name) ==
    {i \in DOMAIN ingredients : icontains(ingredients[i].name, name)}

\* RecipeRepository.find_by_meal_name_containing
find_by_meal_name_containing(meal_name) ==
    {r \in DOMAIN recipes : icontains(recipes[r].meal_name, meal_name)}

\* IngredientService.get_all_ingredients
get_all_ingredients == DOMAIN ingredients

\* RecipeService.get_all_recipes
get_all_recipes == DOMAIN recipes

\* IngredientService.search_ingredients_by_name
search_ingredients_by_name(name) ==
    IF name = NoneStr \/ name = <<>> \/ Strip(name) = <<>>
    THEN Returned("ok", get_all_ingredients)
    ELSE Returned("ok", find_by_name_containing(Strip(name)))

\* RecipeService.search_recipes_by_name
search_recipes_by_name(meal_name) ==
    IF meal_name = NoneStr \/ meal_name = <<>> \/ Strip(meal_name) = <<>>
    THEN Returned("ok", get_all_recipes)
    ELSE Returned("ok", find_by_meal_name_containing(Strip(meal_name)))

\* a read: the body is the set of the rows that are listed
SearchIngredientsByName(name) ==
    /\ response' = AnswerBody("search_ingredients_by_name",
                              search_ingredients_by_name(name))
    /\ UNCHANGED <<tables, next_id, requests>>

\* a read: the body is the set of the rows that are listed
SearchRecipesByName(meal_name) ==
    /\ response' = AnswerBody("search_recipes_by_name",
                              search_recipes_by_name(meal_name))
    /\ UNCHANGED <<tables, next_id, requests>>

Patterns == {NoneStr, <<>>, <<" ", "\t">>, <<"O">>, <<"\t", "s", " ">>, <<"u", "R">>,
             <<"T", "o">>, <<"z">>, <<"o", " ">>}

\* the searches by name
NextSearch ==
    \/ \E n \in {Tomato, Basil} : CreateIngredient(n, 0, kg)
    \/ \E n \in {Curry, Soup} : CreateRecipe(n, NoneStr, NoneStr)
    \/ \E i \in IngredientIds : DeleteIngredient(i)
    \/ \E r \in RecipeIds : DeleteRecipe(r)
    \/ \E p \in Patterns : SearchIngredientsByName(p)
    \/ \E p \in Patterns : SearchRecipesByName(p)

SpecSearch == Init /\ [][NextSearch]_vars

\* a key that the request data does not have
Missing == <<"missing">>

\* IngredientCreateSerializer.is_valid: name and units_available are
\* required, no field may be null, a string is trimmed and may not be blank
IngredientCreateSerializer_is_valid(data) ==
    /\ data.name \notin {Missing, NoneStr}
    /\ Strip(data.name) # <<>>
    /\ data.units_available # <<>>
    /\ data.units_available[1] >= 0
    /\ data.unit_type # NoneStr
    /\ data.unit_type # Missing => Strip(data.unit_type) # <<>>

\* the arguments of create_ingredient as they would be if an absent
\* unit_type were passed on as None
create_ingredient_arguments_as_given(data) ==
    [name |-> Strip(data.name),
     units_available |-> data.units_available[1],
     unit_type |-> IF data.unit_type = Missing THEN NoneStr
                   ELSE Strip(data.unit_type)]

\* the arguments IngredientController.post passes to create_ingredient, taken
\* from validated_data: an absent unit_type is "pieces"
create_ingredient_arguments(data) ==
    [name |-> Strip(data.name),
     units_available |-> data.units_available[1],
     unit_type |-> IF data.unit_type = Missing THEN pieces
                   ELSE Strip(data.unit_type)]

\* POST /api/ingredients
PostIngredient(data) ==
    IF ~IngredientCreateSerializer_is_valid(data)
    THEN /\ response' = [op |-> "post_ingredient", status |-> 400,
                         detail |-> "serializer.errors", raised |-> ""]
         /\ UNCHANGED <<tables, next_id, requests>>
    ELSE LET arguments == create_ingredient_arguments(data) IN
         /\ CreateIngredient(arguments.name, arguments.units_available,
                             arguments.unit_type)
         /\ response'.op = "create_ingredient"

PostedNames == {Tomato, <<" ">> \o Basil, <<" ">>, Missing}
PostedUnits == {<<>>, <<0>>, <<1>>, <<0 - 1>>}
PostedUnitTypes == {Missing, kg, NoneStr, <<>>}
PostedData == [name : PostedNames, units_available : PostedUnits,
               unit_type : PostedUnitTypes]

\* the ingredients posted to the controller
NextPost ==
    \/ \E data \in PostedData : PostIngredient(data)
    \/ \E i \in IngredientIds : DeleteIngredient(i)

SpecPost == Init /\ [][NextPost]_vars

NewNames == {<<" ">> \o Soup \o <<"\t">>, <<" ">>, <<>>}
NameChanges == {NoneStr, <<"\n">> \o Basil \o <<" ">>, <<" ", " ">>, <<>>}

\* the names of the ingredients, the recipes and the scheduled meals
NextNames ==
    \/ \E n \in NewNames : CreateIngredient(n, 0, kg)
    \/ \E n \in NewNames : CreateRecipe(n, NoneStr, NoneStr)
    \/ \E n \in NewNames : ScheduleMeal(n, MONDAY, LUNCH, NoneId, NoneStr)
    \/ \E i \in IngredientIds, n \in NameChanges :
            UpdateIngredient(i, n, <<>>, NoneStr)
    \/ \E r \in RecipeIds, n \in NameChanges : UpdateRecipe(r, n, NoneStr, NoneStr)
    \/ \E i \in 0..MaxScheduleId, n \in NameChanges :
            UpdateSchedule(i, n, NoneStr, NoneStr, NoneId, NoneStr)

SpecNames == Init /\ [][NextNames]_vars

\* the recipes and the ingredients they list
NextRecipe ==
    \/ CreateRecipe(Curry, NoneStr, NoneStr)
    \/ \E r \in RecipeIds : DeleteRecipe(r)
    \/ CreateIngredient(Tomato, 0, kg)
    \/ \E i \in IngredientIds : DeleteIngredient(i)
    \/ \E r \in 1..MaxRecipeId, i \in 1..MaxIngredientId, q \in Quantities :
            AddIngredientToRecipe(r, i, q)

SpecRecipe == Init /\ [][NextRecipe]_vars

\* the meal schedule and the recipes it refers to
NextPlan ==
    \/ CreateRecipe(Curry, NoneStr, NoneStr)
    \/ \E r \in RecipeIds : DeleteRecipe(r)
    \/ \E d \in {MONDAY, TUESDAY}, r \in 1..MaxRecipeId + 1, x \in Notes :
            ScheduleMeal(Curry, d, LUNCH, r, x)
    \/ \E i \in ScheduleIds, r \in RecipeIds \cup {NoneId} :
            UpdateSchedule(i, NoneStr, NoneStr, NoneStr, r, NoneStr)
    \/ \E i \in ScheduleIds : DeleteSchedule(i)

SpecPlan == Init /\ [][NextPlan]_vars

\* the lookups of referenced recipes and ingredients
NextLookup ==
    \/ CreateRecipe(Curry, NoneStr, NoneStr)
    \/ \E r \in RecipeIds : DeleteRecipe(r)
    \/ CreateIngredient(Tomato, 0, kg)
    \/ \E i \in IngredientIds : DeleteIngredient(i)
    \/ \E r \in RecipeIds \cup {NoneId} : ScheduleMeal(Curry, MONDAY, LUNCH, r, NoneStr)
    \/ \E r \in RecipeIds, i \in IngredientIds : AddIngredientToRecipe(r, i, Grams)

SpecLookup == Init /\ [][NextLookup]_vars

\* the rows that refer to recipes and ingredients
NextReferences ==
    \/ CreateRecipe(Curry, NoneStr, NoneStr)
    \/ \E r \in RecipeIds : DeleteRecipe(r)
    \/ CreateIngredient(Tomato, 0, kg)
    \/ \E i \in IngredientIds : DeleteIngredient(i)
    \/ \E r \in RecipeIds \cup {NoneId} : ScheduleMeal(Curry, MONDAY, LUNCH, r, NoneStr)
    \/ \E r \in RecipeIds \cup {NoneId} :
            UpdateSchedule(1, NoneStr, NoneStr, NoneStr, r, NoneStr)
    \/ \E r \in RecipeIds, i \in {1, 2} : AddIngredientToRecipe(r, i, Grams)

SpecReferences == Init /\ [][NextReferences]_vars

\* the recipe and the notes an update of a scheduled meal is tried with
RecipeChanges ==
    {<<NoneId, Spicy>>, <<NoneId, NoneStr>>, <<0, Spicy>>}
        \cup {<<r, NoneStr>> : r \in 1..MaxRecipeId}

\* the scheduled meals that refer to a recipe, and their updates
NextKeepRecipe ==
    \/ CreateRecipe(Curry, NoneStr, NoneStr)
    \/ \E r \in RecipeIds : DeleteRecipe(r)
    \/ \E d \in {MONDAY, TUESDAY}, r \in 1..MaxRecipeId :
            ScheduleMeal(Curry, d, LUNCH, r, NoneStr)
    \/ \E i \in ScheduleIds, u \in RecipeChanges :
            UpdateSchedule(i, NoneStr, NoneStr, NoneStr, u[1], u[2])

SpecKeepRecipe == Init /\ [][NextKeepRecipe]_vars

\* requests to schedule a meal in which several fields can be wrong at once
NextCheckOrder ==
    \/ CreateRecipe(Curry, NoneStr, NoneStr)
    \/ \E n \in {Curry, <<" ">>}, d \in {MONDAY, tuesday, Funday}, t \in {lunch, Brunch},
          r \in {NoneId} \cup 1..MaxRecipeId :
            ScheduleMeal(n, d, t, r, NoneStr)
    \/ \E i \in ScheduleIds : DeleteSchedule(i)

SpecCheckOrder == Init /\ [][NextCheckOrder]_vars

\* concurrent schedule_meal requests
NextScheduleRace ==
    \/ \E p \in Workers, d \in {MONDAY, monday, TUESDAY} :
            BeginScheduleMeal(p, Curry, d, LUNCH)
    \/ \E p \in Workers : SaveScheduleMeal(p)
    \/ \E p \in Workers : Respond(p)

SpecScheduleRace == Init /\ [][NextScheduleRace]_vars

\* concurrent add_ingredient_to_recipe requests
NextLinkRace ==
    \/ CreateRecipe(Curry, NoneStr, NoneStr)
    \/ CreateIngredient(Tomato, 0, kg)
    \/ \E p \in Workers, i \in {1, 2} : BeginAddIngredient(p, 1, i, Grams)
    \/ \E p \in Workers : FindIngredient(p)
    \/ \E p \in Workers : SaveRecipeIngredient(p)
    \/ \E p \in Workers : Respond(p)

SpecLinkRace == Init /\ [][NextLinkRace]_vars
\* concurrent update_stock and update_ingredient requests
StockChanges == {0 - 1, 1}
UnitsChanges == {<<0>>, <<0 - 1>>}

NextStockRace ==
    \/ CreateIngredient(Tomato, 1, kg)
    \/ \E p \in Workers, c \in StockChanges : BeginUpdateStock(p, 1, c)
    \/ \E p \in Workers, u \in UnitsChanges :
            BeginUpdateIngredient(p, 1, NoneStr, u, NoneStr)
    \/ \E p \in Workers : SaveIngredient(p)
    \/ \E p \in Workers : Respond(p)

SpecStockRace == Init /\ [][NextStockRace]_vars

DetailQuantities == {Cups, <<" ">>}

\* the detail view of a recipe
NextDetail ==
    \/ CreateRecipe(Curry, NoneStr, NoneStr)
    \/ CreateIngredient(Tomato, 0, kg)
    \/ \E i \in IngredientIds : UpdateIngredient(i, <<" ">> \o Basil, <<>>, NoneStr)
    \/ \E r \in RecipeIds, i \in IngredientIds, q \in DetailQuantities :
            AddIngredientToRecipe(r, i, q)
    \/ \E r \in RecipeIds : GetRecipeWithIngredientsDetail(r)

SpecDetail == Init /\ [][NextDetail]_vars

-----------------------------------------------------------------------------
(* Claims about the meal schedule, under Spec.                             *)

Slots == valid_days \X valid_types

RowsIn(slot) == SlotRows(meal_schedules, slot[1], slot[2])

ValidSlot(day, type) == Upper(day) \in valid_days /\ Upper(type) \in valid_types

\* C1: in every reachable state at most one meal_schedules row exists per
\* (day_of_week, meal_type) slot.
C1_SlotUniqueness == \A slot \in Slots : Cardinality(RowsIn(slot)) <= 1

\* C2: schedule_meal for a slot that already holds an entry (day and type
\* compared case-insensitively) ends with ValueError and status 400 and
\* changes no table; schedule_meal with valid input for a slot that no
\* entry holds ends with status 201 and adds exactly one row, in that slot.
C2_ScheduleConflictOrCreate ==
    [][\A n \in NameInputs, d \in Days, t \in MealTypes :
        (response'.op = "schedule_meal" /\ ScheduleMeal(n, d, t, NoneId, NoneStr)) =>
            /\ (ValidSlot(d, t) /\ RowsIn(<<Upper(d), Upper(t)>>) # {}) =>
                  /\ response'.raised = "ValueError"
                  /\ response'.status = 400
                  /\ UNCHANGED tables
            /\ (~IsBlank(n) /\ ValidSlot(d, t) /\ RowsIn(<<Upper(d), Upper(t)>>) = {}) =>
                  /\ response'.status = 201
                  /\ Cardinality(DOMAIN meal_schedules') =
                        Cardinality(DOMAIN meal_schedules) + 1
                  /\ \E i \in DOMAIN meal_schedules' \ DOMAIN meal_schedules :
                        /\ meal_schedules'[i].day_of_week = Upper(d)
                        /\ meal_schedules'[i].meal_type = Upper(t)
                  /\ \A i \in DOMAIN meal_schedules :
                        i \in DOMAIN meal_schedules' /\ meal_schedules'[i] = meal_schedules[i]
    ]_vars

\* C7: update_schedule that moves an existing row, by a valid day_of_week
\* and/or meal_type, to a slot that another row holds returns the row
\* (status 200, no error), persists the move, and leaves at least two rows
\* in that slot.
C7_UpdateIntoOccupiedSlot ==
    [][\A i \in ScheduleIds, d \in DayUpdates, t \in TypeUpdates :
        (/\ response'.op = "update_schedule"
         /\ i \in DOMAIN meal_schedules
         /\ d # NoneStr \/ t # NoneStr
         /\ d # NoneStr => Upper(d) \in valid_days
         /\ t # NoneStr => Upper(t) \in valid_types
         /\ LET day == IF d # NoneStr THEN Upper(d) ELSE meal_schedules[i].day_of_week
                type == IF t # NoneStr THEN Upper(t) ELSE meal_schedules[i].meal_type
            IN /\ <<day, type>> #
                    <<meal_schedules[i].day_of_week, meal_schedules[i].meal_type>>
               /\ RowsIn(<<day, type>>) \ {i} # {}
         /\ UpdateSchedule(i, NoneStr, d, t, NoneId, NoneStr))
        =>
        LET day == IF d # NoneStr THEN Upper(d) ELSE meal_schedules[i].day_of_week
            type == IF t # NoneStr THEN Upper(t) ELSE meal_schedules[i].meal_type
        IN /\ response'.raised = ""
           /\ response'.status = 200
           /\ meal_schedules'[i].day_of_week = day
           /\ meal_schedules'[i].meal_type = type
           /\ Cardinality(SlotRows(meal_schedules', day, type)) >= 2
    ]_vars

\* C7's case: an update_schedule has just succeeded and a slot holds two rows
C7_Witness ==
    /\ response.op = "update_schedule"
    /\ response.status = 200
    /\ \E slot \in Slots : Cardinality(RowsIn(slot)) >= 2

\* a supplied day or type that is outside its enumeration
InvalidDayOrType(d, t) ==
    \/ d # NoneStr /\ Upper(d) \notin valid_days
    \/ t # NoneStr /\ Upper(t) \notin valid_types

\* every row has a day and a type of the enumerations, in upper case
EnumeratedRows ==
    \A i \in DOMAIN meal_schedules :
        /\ meal_schedules[i].day_of_week \in valid_days
        /\ meal_schedules[i].meal_type \in valid_types

\* C18 as stated: schedule_meal and update_schedule (whatever the id) answer
\* a day_of_week or a meal_type outside the enumerations with ValueError
\* (400) and change no table, and every row has a day and a type of the
\* enumerations.
C18_InvalidEnumRejected ==
    /\ []EnumeratedRows
    /\ [][/\ \A n \in NameInputs, d \in Days, t \in MealTypes :
              (/\ response'.op = "schedule_meal"
               /\ InvalidDayOrType(d, t)
               /\ ScheduleMeal(n, d, t, NoneId, NoneStr)) =>
                  /\ response'.raised = "ValueError"
                  /\ response'.status = 400
                  /\ UNCHANGED tables
          /\ \A i \in ScheduleIds, d \in DayUpdates, t \in TypeUpdates :
              (/\ response'.op = "update_schedule"
               /\ InvalidDayOrType(d, t)
               /\ UpdateSchedule(i, NoneStr, d, t, NoneId, NoneStr)) =>
                  /\ response'.raised = "ValueError"
                  /\ response'.status = 400
                  /\ UNCHANGED tables
         ]_vars

\* C18 as amended: schedule_meal, and update_schedule on an existing id,
\* answer a day_of_week or a meal_type outside the enumerations (compared
\* in upper case) with ValueError (400) and change no table; update_schedule
\* on an absent id answers None (404) before it validates anything and
\* changes no table; every row has a day and a type of the enumerations.
C18_InvalidEnumRejectedOnExistingId ==
    /\ []EnumeratedRows
    /\ [][/\ \A n \in NameInputs, d \in Days, t \in MealTypes :
              (/\ response'.op = "schedule_meal"
               /\ InvalidDayOrType(d, t)
               /\ ScheduleMeal(n, d, t, NoneId, NoneStr)) =>
                  /\ response'.raised = "ValueError"
                  /\ response'.status = 400
                  /\ UNCHANGED tables
          /\ \A i \in ScheduleIds, d \in DayUpdates, t \in TypeUpdates :
              (/\ response'.op = "update_schedule"
               /\ InvalidDayOrType(d, t)
               /\ UpdateSchedule(i, NoneStr, d, t, NoneId, NoneStr)) =>
                  /\ UNCHANGED tables
                  /\ IF i \in DOMAIN meal_schedules
                     THEN response'.raised = "ValueError" /\ response'.status = 400
                     ELSE response'.detail = "None" /\ response'.status = 404
         ]_vars

\* C18's case: an update_schedule of an existing row to a meal_type outside
\* the enumeration has just been rejected
C18_Witness ==
    /\ response.op = "update_schedule"
    /\ response.raised = "ValueError"
    /\ response.detail = "Invalid meal type"
    /\ meal_schedules # Empty

-----------------------------------------------------------------------------
(* Claims about the stock, under SpecInventory.                            *)

\* C3: every persisted ingredient has units_available >= 0 in every
\* reachable state, and update_stock(id, delta) on an existing ingredient
\* raises ValueError and leaves the ingredient unchanged when
\* current + delta < 0, and otherwise persists exactly current + delta.
C3_NonNegativeStock ==
    /\ [](\A i \in DOMAIN ingredients : ingredients[i].units_available >= 0)
    /\ [][\A i \in IngredientIds, q \in -(MaxUnits + 1)..MaxUnits :
            (/\ response'.op = "update_stock"
             /\ i \in DOMAIN ingredients
             /\ UpdateStock(i, q)) =>
                IF ingredients[i].units_available + q < 0
                THEN /\ response'.raised = "ValueError"
                     /\ ingredients' = ingredients
                ELSE /\ response'.raised = ""
                     /\ ingredients'[i].units_available =
                            ingredients[i].units_available + q
         ]_vars

\* C3's case: update_stock has just been refused on an ingredient in stock
C3_Witness ==
    /\ response.op = "update_stock"
    /\ response.raised = "ValueError"
    /\ \E i \in DOMAIN ingredients : ingredients[i].units_available > 0

\* C12: create_ingredient with a name that is not empty after trimming and
\* units_available >= 0 answers 201 and adds exactly one ingredient, whose
\* name is the given name trimmed and whose units_available and unit_type
\* are the given ones, every other ingredient being unchanged; with an
\* empty or whitespace-only name, or with units_available < 0, it raises
\* ValueError (400) and changes no table.
C12_CreateIngredient ==
    [][\A n \in NewIngredientNames, u \in UnitsInputs :
        (/\ response'.op = "create_ingredient"
         /\ CreateIngredient(n, u, kg)) =>
            IF Strip(n) # <<>> /\ u >= 0
            THEN /\ response'.status = 201
                 /\ DOMAIN ingredients' = DOMAIN ingredients \cup {next_id.ingredients}
                 /\ next_id.ingredients \notin DOMAIN ingredients
                 /\ ingredients'[next_id.ingredients] =
                        [name |-> Strip(n), units_available |-> u, unit_type |-> kg]
                 /\ \A i \in DOMAIN ingredients : ingredients'[i] = ingredients[i]
                 /\ UNCHANGED <<recipes, recipe_ingredients, meal_schedules>>
            ELSE /\ response'.raised = "ValueError"
                 /\ response'.status = 400
                 /\ UNCHANGED tables
    ]_vars

\* C12's case: an ingredient given with blanks around its name has just been
\* created and is stored under the trimmed name
C12_Witness ==
    /\ response.op = "create_ingredient"
    /\ response.status = 201
    /\ next_id.ingredients - 1 \in DOMAIN ingredients
    /\ ingredients[next_id.ingredients - 1].name = Basil

\* C13 (SpecStockIdentity): update_stock(id, 0) on an existing ingredient
\* succeeds (no error, the ingredient is returned) and leaves every
\* ingredient, that one included, exactly as it was: units_available, name
\* and unit_type are unchanged, whatever the stock.
C13_ZeroDeltaIdentity ==
    [][\A i \in IngredientIds :
        (/\ response'.op = "update_stock"
         /\ i \in DOMAIN ingredients
         /\ UpdateStock(i, 0)) =>
            /\ response'.raised = ""
            /\ response'.detail = "ok"
            /\ ingredients' = ingredients
            /\ UNCHANGED tables
    ]_vars

\* C13's case: under SpecStockIdentity every update_stock has delta 0; one
\* has just succeeded on an ingredient whose stock is the largest
C13_Witness ==
    /\ response.op = "update_stock"
    /\ response.detail = "ok"
    /\ \E i \in DOMAIN ingredients : ingredients[i].units_available = MaxUnits

-----------------------------------------------------------------------------
(* Claims about recipes and their ingredients, under SpecRecipe.           *)

LinksOf(recipe_id, ingredient_id) ==
    {l \in DOMAIN recipe_ingredients :
        /\ recipe_ingredients[l].recipe = recipe_id
        /\ recipe_ingredients[l].ingredient = ingredient_id}

\* C5: add_ingredient_to_recipe on a (recipe, ingredient) pair that already
\* has a row ends with ValueError and status 400, and leaves
\* recipe_ingredients unchanged.
C5_DuplicatePairIs400 ==
    [][\A r \in 1..MaxRecipeId, i \in 1..MaxIngredientId, q \in Quantities :
        (/\ response'.op = "add_ingredient_to_recipe"
         /\ LinksOf(r, i) # {}
         /\ AddIngredientToRecipe(r, i, q)) =>
            /\ response'.raised = "ValueError"
            /\ response'.status = 400
            /\ recipe_ingredients' = recipe_ingredients
    ]_vars

\* C8 as stated: deleting an ingredient that recipe_ingredients rows refer to
\* leaves those rows in the table, unchanged.
C8_DeleteIngredientOrphans ==
    [][\A i \in IngredientIds :
        (/\ response'.op = "delete_ingredient"
         /\ i \in DOMAIN ingredients
         /\ DeleteIngredient(i)) =>
            \A l \in DOMAIN recipe_ingredients :
                recipe_ingredients[l].ingredient = i =>
                    /\ l \in DOMAIN recipe_ingredients'
                    /\ recipe_ingredients'[l] = recipe_ingredients[l]
    ]_vars

\* C8 as amended: deleting an ingredient removes every recipe_ingredients row
\* that refers to it and leaves every other row unchanged, so that no row
\* is left with a dangling ingredient reference.
C8_DeleteIngredientCascades ==
    [][\A i \in IngredientIds :
        (/\ response'.op = "delete_ingredient"
         /\ i \in DOMAIN ingredients
         /\ DeleteIngredient(i)) =>
            /\ i \notin DOMAIN ingredients'
            /\ \A l \in DOMAIN recipe_ingredients :
                  IF recipe_ingredients[l].ingredient = i
                  THEN l \notin DOMAIN recipe_ingredients'
                  ELSE /\ l \in DOMAIN recipe_ingredients'
                       /\ recipe_ingredients'[l] = recipe_ingredients[l]
            /\ \A l \in DOMAIN recipe_ingredients' :
                  recipe_ingredients'[l].ingredient \in DOMAIN ingredients'
    ]_vars

\* C8's case: the one ingredient ever created was listed by the one recipe
\* ever created, which still exists, and has just been deleted
C8_Witness ==
    /\ response.op = "delete_ingredient"
    /\ response.status = 200
    /\ next_id.ingredients = 2
    /\ next_id.recipes = 2
    /\ next_id.recipe_ingredients = 2
    /\ 1 \in DOMAIN recipes
    /\ ingredients = Empty
    /\ recipe_ingredients = Empty

-----------------------------------------------------------------------------
(* Claims about the recipe of a scheduled meal, under SpecPlan.            *)

\* C9: delete_recipe of a recipe that meal_schedules rows refer to deletes
\* none of those rows: each remains, with recipe null and with meal_name,
\* day_of_week, meal_type and notes unchanged.
C9_DeleteRecipeNullsSchedules ==
    [][\A r \in RecipeIds :
        (/\ response'.op = "delete_recipe"
         /\ r \in DOMAIN recipes
         /\ DeleteRecipe(r)) =>
            \A i \in DOMAIN meal_schedules :
                meal_schedules[i].recipe = r =>
                    /\ i \in DOMAIN meal_schedules'
                    /\ meal_schedules'[i] = [meal_schedules[i] EXCEPT !.recipe = NoneId]
    ]_vars

\* C9's case: a recipe has just been deleted and a scheduled meal, which
\* under SpecPlan was created with a recipe, has none
C9_Witness ==
    /\ response.op = "delete_recipe"
    /\ response.status = 200
    /\ \E i \in DOMAIN meal_schedules :
          /\ meal_schedules[i].recipe = NoneId
          /\ meal_schedules[i].notes = Spicy

-----------------------------------------------------------------------------
(* Claims about lookups, under SpecLookup.                                 *)

\* C10: schedule_meal with a recipe_id (a positive id) that resolves to no
\* recipe, and add_ingredient_to_recipe with a recipe id or an ingredient id
\* that resolves to no row, are answered with status 404 and change no table.
C10_UnresolvedIs404 ==
    [][/\ \A r \in RecipeIds :
            (/\ ScheduleMeal(Curry, MONDAY, LUNCH, r, NoneStr)
             /\ r > 0 /\ r \notin DOMAIN recipes) =>
                (response'.status = 404 /\ UNCHANGED tables)
       /\ \A r \in RecipeIds, i \in IngredientIds :
            (/\ AddIngredientToRecipe(r, i, Grams)
             /\ r > 0 /\ i > 0
             /\ r \notin DOMAIN recipes \/ i \notin DOMAIN ingredients) =>
                (response'.status = 404 /\ UNCHANGED tables)
    ]_vars

-----------------------------------------------------------------------------
(* Claims about concurrent requests.                                       *)

\* C4 (SpecLinkRace): under every interleaving of concurrent
\* add_ingredient_to_recipe requests at most one recipe_ingredients row
\* exists per (recipe, ingredient) pair, and a save for a pair that already
\* has a row is rejected by the uniqueness constraint and adds no row.
C4_PairUniqueness ==
    /\ [](\A r \in RecipeIds, i \in IngredientIds : Cardinality(LinksOf(r, i)) <= 1)
    /\ [][\A p \in Workers :
            (/\ SaveRecipeIngredient(p)
             /\ LinksOf(requests[p].args[1], requests[p].args[2]) # {}) =>
                /\ requests'[p].answer.raised = "IntegrityError"
                /\ recipe_ingredients' = recipe_ingredients
         ]_vars

\* C4's case: two requests for the same pair both passed the existence
\* checks; one has created the row and the other has been rejected
C4_Witness ==
    \E p, q \in DOMAIN requests :
        /\ p # q
        /\ requests[p].op = "add_ingredient_to_recipe"
        /\ requests[q].op = "add_ingredient_to_recipe"
        /\ requests[p].args = requests[q].args
        /\ requests[p].answer.status = 201
        /\ requests[q].answer.raised = "IntegrityError"
        /\ Cardinality(LinksOf(requests[p].args[1], requests[p].args[2])) = 1

\* C6 (SpecScheduleRace): a schedule_meal request that found its slot empty
\* and saves after another request has filled that slot succeeds all the
\* same (201), and the slot then holds two or more rows.
C6_ScheduleRaceDuplicates ==
    [][\A p \in Workers :
        (SaveScheduleMeal(p) /\ RowsIn(requests[p].args) # {}) =>
            /\ requests'[p].answer.status = 201
            /\ Cardinality(SlotRows(meal_schedules', requests[p].args[1],
                                    requests[p].args[2]))
                  = Cardinality(RowsIn(requests[p].args)) + 1
    ]_vars

\* C6's case: two requests for the same slot have both succeeded and the
\* slot holds two rows
C6_Witness ==
    \E p, q \in DOMAIN requests :
        /\ p # q
        /\ requests[p].op = "schedule_meal"
        /\ requests[q].op = "schedule_meal"
        /\ requests[p].args = requests[q].args
        /\ requests[p].answer.status = 201
        /\ requests[q].answer.status = 201
        /\ Cardinality(RowsIn(requests[p].args)) = 2

-----------------------------------------------------------------------------
(* Claims about the detail view of a recipe, under SpecDetail.             *)

\* the entries of a detail view that are about one ingredient
EntriesOf(detail, ingredient_id) ==
    {k \in DOMAIN detail.ingredients :
        detail.ingredients[k].ingredient_id = ingredient_id}

\* C11: right after a successful add_ingredient_to_recipe(r, i, q) the detail
\* view of recipe r holds exactly one entry whose ingredient_id is i, and
\* that entry carries q trimmed and the ingredient's current name and
\* unit_type; get_recipe_with_ingredients_detail of an id that is no recipe
\* returns None (404), of a recipe it returns the view (200), and it
\* changes no table.
C11_DetailRoundTrip ==
    [][/\ \A r \in RecipeIds, i \in IngredientIds, q \in DetailQuantities :
            (/\ response'.op = "add_ingredient_to_recipe"
             /\ response'.status = 201
             /\ AddIngredientToRecipe(r, i, q)) =>
                LET out == get_recipe_with_ingredients_detail(r)' IN
                /\ Ok(out)
                /\ Cardinality(EntriesOf(out.value, i)) = 1
                /\ \A k \in EntriesOf(out.value, i) :
                      out.value.ingredients[k] =
                         [ingredient_id |-> i,
                          ingredient_name |-> ingredients'[i].name,
                          quantity |-> Strip(q),
                          unit_type |-> ingredients'[i].unit_type]
       /\ \A r \in RecipeIds :
            (/\ response'.op = "get_recipe_with_ingredients_detail"
             /\ GetRecipeWithIngredientsDetail(r)) =>
                /\ UNCHANGED tables
                /\ IF r \in DOMAIN recipes
                   THEN /\ response'.status = 200
                        /\ response'.body.id = r
                        /\ \A i \in IngredientIds :
                              Cardinality(EntriesOf(response'.body, i)) =
                                 Cardinality(LinksOf(r, i))
                   ELSE /\ response'.detail = "None"
                        /\ response'.status = 404
    ]_vars

\* C11's case: the detail view of a recipe has been read, it lists an
\* ingredient that another recipe lists too, under the ingredient's trimmed
\* name and with the trimmed quantity
C11_Witness ==
    /\ response.op = "get_recipe_with_ingredients_detail"
    /\ response.status = 200
    /\ Cardinality(DOMAIN recipe_ingredients) = 2
    /\ \E k \in DOMAIN response.body.ingredients :
          /\ response.body.ingredients[k].ingredient_name = Basil
          /\ response.body.ingredients[k].quantity = <<"2">>
          /\ \A l \in DOMAIN recipe_ingredients :
                recipe_ingredients[l].ingredient =
                    response.body.ingredients[k].ingredient_id

-----------------------------------------------------------------------------
(* Claims about calls addressed to an absent id, under SpecAbsent.         *)

\* C14: a delete addressed to an id that is not in its table answers False
\* (404) and an update or update_stock addressed to such an id answers None
\* (404), whatever the other arguments; neither raises nor changes a table.
\* A delete addressed to an id that is in its table answers True (200) and
\* removes it, and as ids are never given twice a second delete of that id
\* always answers False.
C14_AbsentIdIsNotFound ==
    /\ [](/\ \A i \in DOMAIN ingredients : i < next_id.ingredients
          /\ \A r \in DOMAIN recipes : r < next_id.recipes
          /\ \A i \in DOMAIN meal_schedules : i < next_id.meal_schedules)
    /\ [][/\ \A i \in IngredientIds :
              (response'.op = "delete_ingredient" /\ DeleteIngredient(i)) =>
                 IF i \in DOMAIN ingredients
                 THEN response'.status = 200 /\ i \notin DOMAIN ingredients'
                 ELSE /\ response'.detail = "False" /\ response'.raised = ""
                      /\ response'.status = 404 /\ UNCHANGED tables
          /\ \A r \in RecipeIds :
              (response'.op = "delete_recipe" /\ DeleteRecipe(r)) =>
                 IF r \in DOMAIN recipes
                 THEN response'.status = 200 /\ r \notin DOMAIN recipes'
                 ELSE /\ response'.detail = "False" /\ response'.raised = ""
                      /\ response'.status = 404 /\ UNCHANGED tables
          /\ \A i \in 0..MaxScheduleId :
              (response'.op = "delete_schedule" /\ DeleteSchedule(i)) =>
                 IF i \in DOMAIN meal_schedules
                 THEN response'.status = 200 /\ i \notin DOMAIN meal_schedules'
                 ELSE /\ response'.detail = "False" /\ response'.raised = ""
                      /\ response'.status = 404 /\ UNCHANGED tables
          /\ \A i \in IngredientIds, n \in {NoneStr, <<" ">>} :
              (/\ response'.op = "update_ingredient"
               /\ i \notin DOMAIN ingredients
               /\ UpdateIngredient(i, n, <<>>, NoneStr)) =>
                 /\ response'.detail = "None" /\ response'.raised = ""
                 /\ response'.status = 404 /\ UNCHANGED tables
          /\ \A r \in RecipeIds, n \in {NoneStr, <<" ">>} :
              (/\ response'.op = "update_recipe"
               /\ r \notin DOMAIN recipes
               /\ UpdateRecipe(r, n, NoneStr, NoneStr)) =>
                 /\ response'.detail = "None" /\ response'.raised = ""
                 /\ response'.status = 404 /\ UNCHANGED tables
          /\ \A i \in 0..MaxScheduleId, d \in {NoneStr, Funday} :
              (/\ response'.op = "update_schedule"
               /\ i \notin DOMAIN meal_schedules
               /\ UpdateSchedule(i, NoneStr, d, NoneStr, NoneId, NoneStr)) =>
                 /\ response'.detail = "None" /\ response'.raised = ""
                 /\ response'.status = 404 /\ UNCHANGED tables
          /\ \A i \in IngredientIds, q \in {-2, 0} :
              (/\ response'.op = "update_stock"
               /\ i \notin DOMAIN ingredients
               /\ UpdateStock(i, q)) =>
                 /\ response'.detail = "None" /\ response'.raised = ""
                 /\ response'.status = 404 /\ UNCHANGED tables
         ]_vars

\* C14's case: the only schedule entry ever created has been deleted, and a
\* delete_schedule has just answered False
C14_Witness ==
    /\ response.op = "delete_schedule"
    /\ response.detail = "False"
    /\ response.status = 404
    /\ next_id.meal_schedules = 2
    /\ meal_schedules = Empty

-----------------------------------------------------------------------------
(* Claims about partial updates, under SpecUpdate.                         *)

\* the value a field takes: the supplied one, or the previous one when
\* nothing is supplied
Supplied(none, given, previous) == IF given = none THEN previous ELSE given

\* C15: update_ingredient, update_recipe and update_schedule on an existing
\* id with valid supplied fields answer 200; every field that is not
\* supplied keeps its previous value and every supplied field takes the
\* supplied value (names trimmed, day and type in upper case); no other row
\* of the table and no other table changes.
C15_PartialUpdateFrame ==
    [][/\ \A fields \in IngredientUpdates :
            LET n == fields[1]  u == fields[2]  t == fields[3] IN
            (/\ response'.op = "update_ingredient"
             /\ 1 \in DOMAIN ingredients
             /\ UpdateIngredient(1, n, u, t)) =>
                /\ response'.status = 200
                /\ DOMAIN ingredients' = DOMAIN ingredients
                /\ ingredients'[1] =
                      [name |-> IF n = NoneStr THEN ingredients[1].name ELSE Strip(n),
                       units_available |->
                          IF u = <<>> THEN ingredients[1].units_available ELSE u[1],
                       unit_type |-> Supplied(NoneStr, t, ingredients[1].unit_type)]
                /\ \A j \in DOMAIN ingredients \ {1} : ingredients'[j] = ingredients[j]
                /\ UNCHANGED <<recipes, recipe_ingredients, meal_schedules>>
       /\ \A fields \in RecipeUpdates :
            LET n == fields[1]  d == fields[2]  w == fields[3] IN
            (/\ response'.op = "update_recipe"
             /\ 1 \in DOMAIN recipes
             /\ UpdateRecipe(1, n, d, w)) =>
                /\ response'.status = 200
                /\ DOMAIN recipes' = DOMAIN recipes
                /\ recipes'[1] =
                      [meal_name |-> IF n = NoneStr THEN recipes[1].meal_name
                                     ELSE Strip(n),
                       description |-> Supplied(NoneStr, d, recipes[1].description),
                       web_link |-> Supplied(NoneStr, w, recipes[1].web_link)]
                /\ \A j \in DOMAIN recipes \ {1} : recipes'[j] = recipes[j]
                /\ UNCHANGED <<ingredients, recipe_ingredients, meal_schedules>>
       /\ \A fields \in ScheduleUpdates :
            LET n == fields[1]  d == fields[2]  t == fields[3]
                r == fields[4]  x == fields[5]
            IN
            (/\ response'.op = "update_schedule"
             /\ 1 \in DOMAIN meal_schedules
             /\ r = NoneId \/ r \in DOMAIN recipes
             /\ UpdateSchedule(1, n, d, t, r, x)) =>
                /\ response'.status = 200
                /\ DOMAIN meal_schedules' = DOMAIN meal_schedules
                /\ meal_schedules'[1] =
                      [meal_name |-> IF n = NoneStr THEN meal_schedules[1].meal_name
                                     ELSE Strip(n),
                       day_of_week |-> IF d = NoneStr THEN meal_schedules[1].day_of_week
                                       ELSE Upper(d),
                       meal_type |-> IF t = NoneStr THEN meal_schedules[1].meal_type
                                     ELSE Upper(t),
                       recipe |-> Supplied(NoneId, r, meal_schedules[1].recipe),
                       notes |-> Supplied(NoneStr, x, meal_schedules[1].notes)]
                /\ \A j \in DOMAIN meal_schedules \ {1} :
                      meal_schedules'[j] = meal_schedules[j]
                /\ UNCHANGED <<ingredients, recipes, recipe_ingredients>>
    ]_vars

\* C15's case: an update_ingredient has just succeeded; the first ingredient
\* has the supplied name, trimmed, and still the stock and the unit type it
\* was created with, and a second ingredient is as it was created
C15_Witness ==
    /\ response.op = "update_ingredient"
    /\ response.status = 200
    /\ DOMAIN ingredients = {1, 2}
    /\ ingredients[1] = [name |-> Basil, units_available |-> 1, unit_type |-> kg]
    /\ ingredients[2] = [name |-> Tomato, units_available |-> 1, unit_type |-> kg]

-----------------------------------------------------------------------------
(* Claims about clear_day_schedule.                                        *)

\* C16 (SpecClearDay): clear_day_schedule(day) with a valid day in any letter
\* case, every delete succeeding, ends without error, with no meal_schedules
\* row of that day and with every row of another day present and unchanged;
\* with a day outside the enumeration it raises ValueError and changes no
\* table.
C16_ClearDay ==
    [][\A d \in Days :
        (/\ response'.op = "clear_day_schedule"
         /\ ClearDaySchedule(d)) =>
            IF Upper(d) \in valid_days
            THEN /\ response'.raised = ""
                 /\ \A i \in DOMAIN meal_schedules' :
                       meal_schedules'[i].day_of_week # Upper(d)
                 /\ \A i \in DOMAIN meal_schedules :
                       meal_schedules[i].day_of_week # Upper(d) =>
                          /\ i \in DOMAIN meal_schedules'
                          /\ meal_schedules'[i] = meal_schedules[i]
                 /\ UNCHANGED <<ingredients, recipes, recipe_ingredients>>
            ELSE /\ response'.raised = "ValueError"
                 /\ UNCHANGED tables
    ]_vars

\* C16's case: under SpecClearDay only clear_day_schedule deletes; the last
\* entry that was created is gone, an entry remains, and a
\* clear_day_schedule has just ended without error
C16_Witness ==
    /\ response.op = "clear_day_schedule"
    /\ response.raised = ""
    /\ next_id.meal_schedules > 1
    /\ next_id.meal_schedules - 1 \notin DOMAIN meal_schedules
    /\ meal_schedules # Empty

\* C17 (SpecClearDayFailure): when a delete of clear_day_schedule fails after
\* some entries of the day have been deleted, the call ends with the error,
\* the deleted entries stay deleted, the other entries of the day stay
\* present and unchanged, and so do the entries of the other days: nothing
\* restores what was deleted.
C17_ClearDayNotAtomic ==
    [][\A d \in Days, done \in SUBSET ScheduleIds :
        (/\ response'.raised = "DatabaseError"
         /\ ClearDayScheduleFailing(d, done)) =>
            /\ response'.op = "clear_day_schedule"
            /\ DOMAIN meal_schedules' = DOMAIN meal_schedules \ done
            /\ \A i \in DOMAIN meal_schedules' : meal_schedules'[i] = meal_schedules[i]
            /\ \E i \in DOMAIN meal_schedules' : meal_schedules'[i].day_of_week = Upper(d)
            /\ UNCHANGED <<ingredients, recipes, recipe_ingredients>>
    ]_vars

\* C17's case: a clear_day_schedule has just failed after it had deleted an
\* entry of the day; that entry is gone and another entry of the day is
\* still there
C17_Witness ==
    /\ response.op = "clear_day_schedule"
    /\ response.raised = "DatabaseError"
    /\ response.deleted # {}
    /\ response.deleted \cap DOMAIN meal_schedules = {}
    /\ \E i \in DOMAIN meal_schedules :
          meal_schedules[i].day_of_week = response.day

-----------------------------------------------------------------------------
(* Claims about a slot that is freed, under SpecFreeSlot.                  *)

\* what schedule_meal(Curry, MONDAY, LUNCH) would do in the current state:
\* its outcome, and the table after its save
Rescheduled ==
    LET checked == schedule_meal(Curry, MONDAY, LUNCH, NoneId, NoneStr) IN
    IF Ok(checked) THEN meal_schedule_save(next_id.meal_schedules, checked.value)
    ELSE checked

\* C19: while exactly one entry holds the slot (MONDAY, LUNCH), schedule_meal
\* for that slot is rejected with the conflict ValueError; once that entry
\* has been deleted by delete_schedule, or moved to another slot by
\* update_schedule, the same schedule_meal succeeds and the slot holds
\* exactly one entry, the new one.
C19_FreedSlotCanBeTaken ==
    [][\A i \in ScheduleIds :
        (/\ response'.op \in {"delete_schedule", "update_schedule"}
         /\ response'.status = 200
         /\ SlotRows(meal_schedules, MONDAY, LUNCH) = {i}
         /\ \/ DeleteSchedule(i)
            \/ \E d \in {NoneStr, tuesday}, t \in {NoneStr, dinner} :
                  /\ d # NoneStr \/ t # NoneStr
                  /\ UpdateSchedule(i, NoneStr, d, t, NoneId, NoneStr)) =>
            /\ Rescheduled.raised = "ValueError"
            /\ Rescheduled.detail = "A meal is already scheduled"
            /\ Ok(Rescheduled')
            /\ SlotRows(Rescheduled'.value, MONDAY, LUNCH) = {next_id'.meal_schedules}
    ]_vars

\* C19's case: every entry is created in the slot (MONDAY, LUNCH); the first
\* one has been moved to another slot, the second one has been deleted, and
\* a schedule_meal has just put a third one in the slot
C19_Witness ==
    /\ response.op = "schedule_meal"
    /\ response.status = 201
    /\ DOMAIN meal_schedules = {1, 3}
    /\ SlotRows(meal_schedules, MONDAY, LUNCH) = {3}

-----------------------------------------------------------------------------
(* Claims about the lists of the meal schedule, under SpecQuery.           *)

\* C20: get_schedules_by_day and get_schedules_by_meal_type raise ValueError
\* (400) for a value whose upper case is outside the enumeration; for a
\* valid value in any letter case they answer 200 with exactly the rows
\* whose day_of_week (respectively meal_type) is that value in upper case;
\* in both cases no table changes.
C20_ListByDayAndType ==
    [][/\ \A d \in DayQueries :
            (/\ response'.op = "get_schedules_by_day"
             /\ GetSchedulesByDay(d)) =>
                /\ UNCHANGED tables
                /\ IF Upper(d) \in valid_days
                   THEN /\ response'.status = 200
                        /\ response'.body =
                              {i \in DOMAIN meal_schedules :
                                  meal_schedules[i].day_of_week = Upper(d)}
                   ELSE /\ response'.raised = "ValueError"
                        /\ response'.status = 400
       /\ \A t \in TypeQueries :
            (/\ response'.op = "get_schedules_by_meal_type"
             /\ GetSchedulesByMealType(t)) =>
                /\ UNCHANGED tables
                /\ IF Upper(t) \in valid_types
                   THEN /\ response'.status = 200
                        /\ response'.body =
                              {i \in DOMAIN meal_schedules :
                                  meal_schedules[i].meal_type = Upper(t)}
                   ELSE /\ response'.raised = "ValueError"
                        /\ response'.status = 400
    ]_vars

\* C20's case: the list of a meal type has just been answered; it holds two
\* of the three rows of the table, which are rows of two days
C20_Witness ==
    /\ response.op = "get_schedules_by_meal_type"
    /\ response.status = 200
    /\ Cardinality(response.body) = 2
    /\ Cardinality(DOMAIN meal_schedules) = 3
    /\ \E i, j \in response.body :
          meal_schedules[i].day_of_week # meal_schedules[j].day_of_week

-----------------------------------------------------------------------------
(* Claims about the names, under SpecNames.                                *)

\* a name that is not empty and has no whitespace at either end
TrimmedName(name) ==
    /\ name # NoneStr
    /\ name # <<>>
    /\ Head(name) \notin Whitespace
    /\ name[Len(name)] \notin Whitespace

\* every persisted name is not empty and has no whitespace at either end
TrimmedNames ==
    /\ \A i \in DOMAIN ingredients : TrimmedName(ingredients[i].name)
    /\ \A r \in DOMAIN recipes : TrimmedName(recipes[r].meal_name)
    /\ \A i \in DOMAIN meal_schedules : TrimmedName(meal_schedules[i].meal_name)

\* a supplied name that is empty or made of whitespace only
BlankName(name) == name # NoneStr /\ \A k \in 1..Len(name) : name[k] \in Whitespace

\* a create with a blank name raises ValueError (400) and changes no table
BlankCreateRejected ==
    \A n \in NewNames :
        (/\ BlankName(n)
         /\ response'.op \in {"create_ingredient", "create_recipe", "schedule_meal"}
         /\ \/ CreateIngredient(n, 0, kg)
            \/ CreateRecipe(n, NoneStr, NoneStr)
            \/ ScheduleMeal(n, MONDAY, LUNCH, NoneId, NoneStr)) =>
            /\ response'.raised = "ValueError"
            /\ response'.status = 400
            /\ UNCHANGED tables

\* C21 as stated: every persisted name is not empty and has no whitespace at
\* either end, and a create or an update (whatever the id) with a blank
\* name raises ValueError (400) and changes no table.
C21_NamesTrimmed ==
    /\ []TrimmedNames
    /\ [][/\ BlankCreateRejected
          /\ \A i \in 0..MaxScheduleId, n \in NameChanges :
              (/\ BlankName(n)
               /\ response'.op \in {"update_ingredient", "update_recipe",
                                     "update_schedule"}
               /\ \/ i \in IngredientIds /\ UpdateIngredient(i, n, <<>>, NoneStr)
                  \/ i \in RecipeIds /\ UpdateRecipe(i, n, NoneStr, NoneStr)
                  \/ UpdateSchedule(i, n, NoneStr, NoneStr, NoneId, NoneStr)) =>
                  /\ response'.raised = "ValueError"
                  /\ response'.status = 400
                  /\ UNCHANGED tables
         ]_vars

\* C21 as amended: every persisted name is not empty and has no whitespace
\* at either end; a create, and an update of an existing id, with a blank
\* name raises ValueError (400) and changes no table; an update of an
\* absent id answers None (404) before the name is looked at.
C21_NamesTrimmedOnExistingId ==
    /\ []TrimmedNames
    /\ [][/\ BlankCreateRejected
          /\ \A i \in IngredientIds, n \in NameChanges :
              (/\ BlankName(n)
               /\ response'.op = "update_ingredient"
               /\ UpdateIngredient(i, n, <<>>, NoneStr)) =>
                  /\ UNCHANGED tables
                  /\ IF i \in DOMAIN ingredients
                     THEN response'.raised = "ValueError" /\ response'.status = 400
                     ELSE response'.detail = "None" /\ response'.status = 404
          /\ \A r \in RecipeIds, n \in NameChanges :
              (/\ BlankName(n)
               /\ response'.op = "update_recipe"
               /\ UpdateRecipe(r, n, NoneStr, NoneStr)) =>
                  /\ UNCHANGED tables
                  /\ IF r \in DOMAIN recipes
                     THEN response'.raised = "ValueError" /\ response'.status = 400
                     ELSE response'.detail = "None" /\ response'.status = 404
          /\ \A i \in 0..MaxScheduleId, n \in NameChanges :
              (/\ BlankName(n)
               /\ response'.op = "update_schedule"
               /\ UpdateSchedule(i, n, NoneStr, NoneStr, NoneId, NoneStr)) =>
                  /\ UNCHANGED tables
                  /\ IF i \in DOMAIN meal_schedules
                     THEN response'.raised = "ValueError" /\ response'.status = 400
                     ELSE response'.detail = "None" /\ response'.status = 404
         ]_vars

\* C21's case: a recipe created from a name with whitespace around it and a
\* scheduled meal renamed with such a name are stored under the trimmed
\* names, and an update with a blank name has just been rejected
C21_Witness ==
    /\ response.op = "update_schedule"
    /\ response.raised = "ValueError"
    /\ response.detail = "Meal name cannot be empty"
    /\ \E r \in DOMAIN recipes : recipes[r].meal_name = Soup
    /\ \E i \in DOMAIN meal_schedules : meal_schedules[i].meal_name = Basil

-----------------------------------------------------------------------------
(* Claims about the posted ingredients, under SpecPost.                    *)

\* C22: an ingredient posted with a valid name and valid units and without a
\* unit_type is created (201) and persisted with the unit_type "pieces".
C22_DefaultUnitType ==
    [][\A data \in PostedData :
        (/\ data.unit_type = Missing
         /\ data.name \notin {Missing, NoneStr} /\ Strip(data.name) # <<>>
         /\ data.units_available # <<>> /\ data.units_available[1] >= 0
         /\ PostIngredient(data)) =>
            /\ response'.status = 201
            /\ next_id.ingredients \notin DOMAIN ingredients
            /\ DOMAIN ingredients' = DOMAIN ingredients \cup {next_id.ingredients}
            /\ ingredients'[next_id.ingredients] =
                    [name |-> Strip(data.name),
                     units_available |-> data.units_available[1],
                     unit_type |-> pieces]
            /\ \A i \in DOMAIN ingredients : ingredients'[i] = ingredients[i]
      ]_vars

\* C22's case: an ingredient was just created and is stored with "pieces",
\* which only a post without a unit_type stores in this specification
C22_Witness ==
    /\ response.op = "create_ingredient"
    /\ response.status = 201
    /\ (next_id.ingredients - 1) \in DOMAIN ingredients
    /\ ingredients[next_id.ingredients - 1].unit_type = pieces
    /\ ingredients[next_id.ingredients - 1].name = Basil

-----------------------------------------------------------------------------
(* Claims about the searches by name, under SpecSearch.                    *)

\* two characters that are the same letter, whatever their case
SameLetter(a, b) ==
    \/ a = b
    \/ \E k \in 1..Len(Lowercase) :
           {a, b} = {Lowercase[k], Uppercase[k]}

\* the pattern occurs in the name, the case of the letters aside
OccursIn(pattern, name) ==
    \E start \in 1..(Len(name) + 1) :
        /\ start + Len(pattern) - 1 <= Len(name)
        /\ \A k \in 1..Len(pattern) : SameLetter(pattern[k], name[start + k - 1])

\* a pattern that is absent, empty or made of whitespace only
NoPattern(pattern) ==
    pattern = NoneStr \/ \A k \in 1..Len(pattern) : pattern[k] \in Whitespace

\* C23: a search with an empty or whitespace-only pattern lists every row;
\* any other search lists exactly the rows whose name contains the trimmed
\* pattern, the case of the letters aside; a search changes no table.
C23_SearchByName ==
    [][\A p \in Patterns :
        /\ (response'.op = "search_ingredients_by_name"
              /\ SearchIngredientsByName(p)) =>
                /\ UNCHANGED <<tables, next_id>>
                /\ response'.status = 200
                /\ response'.body =
                       IF NoPattern(p) THEN DOMAIN ingredients
                       ELSE {i \in DOMAIN ingredients :
                                OccursIn(Strip(p), ingredients[i].name)}
        /\ (response'.op = "search_recipes_by_name"
              /\ SearchRecipesByName(p)) =>
                /\ UNCHANGED <<tables, next_id>>
                /\ response'.status = 200
                /\ response'.body =
                       IF NoPattern(p) THEN DOMAIN recipes
                       ELSE {r \in DOMAIN recipes :
                                OccursIn(Strip(p), recipes[r].meal_name)}
      ]_vars

\* C23's case: with Tomato and Basil stored, a search has just listed one of
\* them only, the one whose name contains the pattern
C23_Witness ==
    /\ response.op = "search_ingredients_by_name"
    /\ DOMAIN ingredients = {1, 2}
    /\ ingredients[1].name = Tomato
    /\ ingredients[2].name = Basil
    /\ response.body = {1}

-----------------------------------------------------------------------------
(* Claims about the updates that fail, under SpecRejectedUpdate.           *)

\* C24: an update of an existing row with a field that is not valid raises
\* ValueError (400), and an update that raises ValueError leaves every table
\* as it was, the fields that were checked before the failing one included.
C24_RejectedUpdateChangesNothing ==
    [][/\ \A u \in IngredientUpdates \cup RejectedIngredientUpdates :
            (response'.op = "update_ingredient"
             /\ UpdateIngredient(1, u[1], u[2], u[3])) =>
               /\ (1 \in DOMAIN ingredients /\ u \in RejectedIngredientUpdates) =>
                      response'.raised = "ValueError" /\ response'.status = 400
               /\ response'.raised = "ValueError" => UNCHANGED <<tables, next_id>>
       /\ \A u \in RecipeUpdates \cup RejectedRecipeUpdates :
            (response'.op = "update_recipe"
             /\ UpdateRecipe(1, u[1], u[2], u[3])) =>
               /\ (1 \in DOMAIN recipes /\ u \in RejectedRecipeUpdates) =>
                      response'.raised = "ValueError" /\ response'.status = 400
               /\ response'.raised = "ValueError" => UNCHANGED <<tables, next_id>>
       /\ \A u \in ScheduleUpdates \cup RejectedScheduleUpdates :
            (response'.op = "update_schedule"
             /\ UpdateSchedule(1, u[1], u[2], u[3], u[4], u[5])) =>
               /\ (1 \in DOMAIN meal_schedules /\ u \in RejectedScheduleUpdates) =>
                      response'.raised = "ValueError" /\ response'.status = 400
               /\ response'.raised = "ValueError" => UNCHANGED <<tables, next_id>>
      ]_vars

\* C24's case: an update with a valid name and negative units has just been
\* rejected, and the ingredient still has the name it was created with
C24_Witness ==
    /\ response.op = "update_ingredient"
    /\ response.raised = "ValueError"
    /\ response.detail = "Units available cannot be negative"
    /\ 1 \in DOMAIN ingredients
    /\ ingredients[1] = [name |-> Tomato, units_available |-> 1, unit_type |-> kg]

-----------------------------------------------------------------------------
(* Claims about a slot that holds several rows, under Spec.                *)

\* C25: schedule_meal with a name and a valid day and type, for a slot that
\* holds two rows or more, ends with MultipleObjectsReturned and status 500,
\* not with ValueError and 400, and changes no table.
C25_CrowdedSlotFailsUnexpectedly ==
    [][\A n \in NameInputs, d \in Days, t \in MealTypes :
        (/\ response'.op = "schedule_meal"
         /\ ~IsBlank(n)
         /\ ValidSlot(d, t)
         /\ Cardinality(RowsIn(<<Upper(d), Upper(t)>>)) >= 2
         /\ ScheduleMeal(n, d, t, NoneId, NoneStr)) =>
            /\ response'.raised = "MultipleObjectsReturned"
            /\ response'.status = 500
            /\ UNCHANGED <<tables, next_id>>
      ]_vars

\* C25's case: schedule_meal has just been answered 500 while a slot holds
\* two rows
C25_Witness ==
    /\ response.op = "schedule_meal"
    /\ response.status = 500
    /\ response.raised = "MultipleObjectsReturned"
    /\ \E slot \in Slots : Cardinality(RowsIn(slot)) >= 2

-----------------------------------------------------------------------------
(* Claims about concurrent changes of the stock, under SpecStockRace.      *)

\* the stock that the update_stock request p read
StockRead(p) == requests[p].row.units_available - requests[p].args[2]

\* update_stock requests p and q on one ingredient that read the same stock,
\* p has saved and was answered 200, and q has not saved yet
BothReadBeforeSave(p, q) ==
    /\ p # q
    /\ p \in DOMAIN requests /\ q \in DOMAIN requests
    /\ requests[p].op = "update_stock" /\ requests[q].op = "update_stock"
    /\ requests[p].args[1] = requests[q].args[1]
    /\ requests[p].pc = "done" /\ requests[p].answer.status = 200
    /\ requests[q].pc = "save"
    /\ StockRead(p) = StockRead(q)

\* C26: when two update_stock requests on one ingredient have read the same
\* stock and the first has saved, the save of the second succeeds too and
\* leaves the stock it read plus its own change: the change of the first
\* request is lost.
C26_LostStockUpdate ==
    [][\A p \in Workers, q \in Workers :
        (BothReadBeforeSave(p, q) /\ SaveIngredient(q)) =>
            /\ requests'[q].answer.status = 200
            /\ requests'[p].answer.status = 200
            /\ ingredients'[requests[q].args[1]].units_available =
                   StockRead(q) + requests[q].args[2]
      ]_vars

\* C26's case: two update_stock requests that read the stock 1 were both
\* answered 200, one took 1 away and the other added 1, and the stock is
\* not 1
C26_Witness ==
    \E p \in DOMAIN requests, q \in DOMAIN requests :
        /\ requests[p].op = "update_stock" /\ requests[q].op = "update_stock"
        /\ requests[p].pc = "done" /\ requests[q].pc = "done"
        /\ requests[p].answer.status = 200 /\ requests[q].answer.status = 200
        /\ requests[p].args = <<1, 0 - 1>> /\ requests[q].args = <<1, 1>>
        /\ requests[p].row.units_available = 0
        /\ requests[q].row.units_available = 2
        /\ ingredients[1].units_available \in {0, 2}

\* C27: whatever the interleaving of the update_stock and update_ingredient
\* requests, the persisted units_available of every ingredient is not
\* negative.
C27_StockNeverNegative ==
    \A i \in DOMAIN ingredients : ingredients[i].units_available >= 0

\* C27's case: an update_stock request that took stock away and an
\* update_ingredient request that set the units to 0, on the same
\* ingredient and in flight together, have both been answered 200
C27_Witness ==
    \E p \in DOMAIN requests, q \in DOMAIN requests :
        /\ requests[p].op = "update_stock" /\ requests[q].op = "update_ingredient"
        /\ requests[p].args[1] = requests[q].args[1]
        /\ requests[p].args[2] < 0
        /\ requests[p].pc = "done" /\ requests[q].pc = "done"
        /\ requests[p].answer.status = 200 /\ requests[q].answer.status = 200
        /\ requests[p].row.units_available = 0
        /\ requests[q].row.units_available = 0
        /\ ingredients[1].units_available = 0

-----------------------------------------------------------------------------
(* Claims about the references between the rows, under SpecReferences.     *)

\* every RecipeIngredient row refers to a recipe and an ingredient that
\* exist, and every MealSchedule row to no recipe or to one that exists
ReferencesExist ==
    /\ \A k \in DOMAIN recipe_ingredients :
          /\ recipe_ingredients[k].recipe \in DOMAIN recipes
          /\ recipe_ingredients[k].ingredient \in DOMAIN ingredients
    /\ \A i \in DOMAIN meal_schedules :
          \/ meal_schedules[i].recipe = NoneId
          \/ meal_schedules[i].recipe \in DOMAIN recipes

\* C28: in every state every RecipeIngredient row refers to an existing
\* recipe and an existing ingredient and every MealSchedule row to no recipe
\* or an existing one; a delete_recipe that succeeds leaves no
\* RecipeIngredient row of the recipe.
C28_ReferentialIntegrity ==
    /\ []ReferencesExist
    /\ [][\A r \in RecipeIds :
            (response'.op = "delete_recipe" /\ response'.status = 200
             /\ DeleteRecipe(r)) =>
                /\ r \notin DOMAIN recipes'
                /\ \A k \in DOMAIN recipe_ingredients' :
                       recipe_ingredients'[k].recipe # r
                /\ \A k \in DOMAIN recipe_ingredients :
                       recipe_ingredients[k].recipe # r =>
                          /\ k \in DOMAIN recipe_ingredients'
                          /\ recipe_ingredients'[k] = recipe_ingredients[k]
         ]_vars

\* C28's case: a recipe has just been deleted, and the one RecipeIngredient
\* row that was ever saved, for an ingredient that is still there, is gone
C28_Witness ==
    /\ response.op = "delete_recipe"
    /\ response.status = 200
    /\ next_id.ingredients = 2
    /\ 1 \in DOMAIN ingredients
    /\ next_id.recipe_ingredients = 2
    /\ DOMAIN recipe_ingredients = {}

-----------------------------------------------------------------------------
(* Claims about the recipe of a scheduled meal, under SpecKeepRecipe.      *)

\* C29: a scheduled meal that refers to a recipe still refers to a recipe
\* after every update_schedule that succeeds, the same one when recipe_id is
\* None; the reference of a row becomes null only in a delete_recipe of the
\* recipe it referred to.
C29_UpdateKeepsRecipe ==
    [][/\ \A i \in ScheduleIds, u \in RecipeChanges :
            (/\ response'.op = "update_schedule"
             /\ response'.status = 200
             /\ i \in DOMAIN meal_schedules
             /\ meal_schedules[i].recipe # NoneId
             /\ UpdateSchedule(i, NoneStr, NoneStr, NoneStr, u[1], u[2])) =>
                /\ meal_schedules'[i].recipe # NoneId
                /\ meal_schedules'[i].recipe \in DOMAIN recipes
                /\ u[1] = NoneId => meal_schedules'[i].recipe = meal_schedules[i].recipe
       /\ \A i \in DOMAIN meal_schedules :
            (/\ i \in DOMAIN meal_schedules'
             /\ meal_schedules[i].recipe # NoneId
             /\ meal_schedules'[i].recipe = NoneId) =>
                /\ response'.op = "delete_recipe"
                /\ response'.status = 200
                /\ meal_schedules[i].recipe \in DOMAIN recipes
                /\ meal_schedules[i].recipe \notin DOMAIN recipes'
      ]_vars

\* C29's case: the only recipe ever created is still there, and a scheduled
\* meal that refers to it has been given notes by an update without a
\* recipe_id, the update that was just answered 200
C29_Witness ==
    /\ response.op = "update_schedule"
    /\ response.status = 200
    /\ next_id.recipes = 2
    /\ 1 \in DOMAIN recipes
    /\ DOMAIN meal_schedules = {1}
    /\ meal_schedules[1].recipe = 1
    /\ meal_schedules[1].notes = Spicy

-----------------------------------------------------------------------------
(* Claims about the order of the checks of schedule_meal, under            *)
(* SpecCheckOrder.                                                          *)

\* the message of the first check that fails, in the order meal_name,
\* day_of_week, meal_type, recipe, slot; "" when none fails
FirstFailure(n, d, t, r) ==
    IF BlankName(n) THEN "Meal name cannot be empty"
    ELSE IF \A day \in valid_days : Upper(d) # day THEN "Invalid day"
    ELSE IF \A type \in valid_types : Upper(t) # type THEN "Invalid meal type"
    ELSE IF r # NoneId /\ r \notin DOMAIN recipes THEN "Recipe not found"
    ELSE IF RowsIn(<<Upper(d), Upper(t)>>) # {} THEN "A meal is already scheduled"
    ELSE ""

\* C30: schedule_meal reports the first check that fails, in the order
\* meal_name, day_of_week, meal_type, recipe, slot, with ValueError (400) and
\* no change to any table; it creates the row (201) when none fails.
C30_FirstFailingCheck ==
    [][\A n \in {Curry, <<" ">>}, d \in {MONDAY, tuesday, Funday}, t \in {lunch, Brunch},
         r \in {NoneId} \cup 1..MaxRecipeId :
        (response'.op = "schedule_meal" /\ ScheduleMeal(n, d, t, r, NoneStr)) =>
            IF FirstFailure(n, d, t, r) # ""
            THEN /\ response'.raised = "ValueError"
                 /\ response'.detail = FirstFailure(n, d, t, r)
                 /\ response'.status = 400
                 /\ UNCHANGED <<tables, next_id>>
            ELSE /\ response'.status = 201
                 /\ DOMAIN meal_schedules' =
                        DOMAIN meal_schedules \cup {next_id.meal_schedules}
      ]_vars

\* C30's case: with every slot of the requests taken and fewer recipes than
\* ids asked for, a request has just been answered that its recipe was not
\* found, not that the slot is taken
C30_Witness ==
    /\ response.op = "schedule_meal"
    /\ response.raised = "ValueError"
    /\ response.detail = "Recipe not found"
    /\ RowsIn(<<MONDAY, LUNCH>>) # {}
    /\ RowsIn(<<TUESDAY, LUNCH>>) # {}

====
